---- MODULE Spec2Model ----
(***************************************************************************)
(* A model of timelog: tagged time intervals (src/src/interval.rs), the    *)
(* tag registry (src/src/tags.rs), the postfix filter engine               *)
(* (src/src/filter.rs) and the TimeLog aggregate (src/src/timelog.rs).     *)
(*                                                                         *)
(* Instants and durations are integers counted in ticks; there are         *)
(* TicksPerSec ticks in a second (chrono counts nanoseconds; a tick is the *)
(* sub-second resolution of the model).  Instant 0 is the top of an hour.  *)
(* Option<T> is a sequence of length 0 (None) or 1 (Some).                 *)
(***************************************************************************)
EXTENDS Integers, Sequences, FiniteSets, TLC

\* ------------------------------------------------------------------ bounds
TicksPerSec == 2
MaxIntervals == 2
MaxQuarter == 2

\* ------------------------------------------------------- program constants
CeilOffsetSecs == 14 * 60 + 59

TicksPerMinute == 60 * TicksPerSec
TicksPerHour == 60 * TicksPerMinute
Quarter == 15 * TicksPerMinute

None == << >>
Some(x) == << x >>
is_some(o) == Len(o) = 1
is_none(o) == Len(o) = 0
unwrap(o) == o[1]

\* ------------------------------------------------- interval.rs: QuarterHour
time_minute(t) == (t % TicksPerHour) \div TicksPerMinute

QuarterHour_of(t) ==
    LET minute == time_minute(t) IN
    IF minute < 15 THEN "TopOfHour"
    ELSE IF minute < 30 THEN "QuarterPast"
    ELSE IF minute < 45 THEN "HalfPast"
    ELSE "QuarterTill"

QuarterHour_minute(qh) ==
    CASE qh = "TopOfHour" -> 0
      [] qh = "QuarterPast" -> 15
      [] qh = "HalfPast" -> 30
      [] qh = "QuarterTill" -> 45

\* with_minute(m).with_second(0).with_nanosecond(0): keep the hour
with_minute_second_nanosecond(t, m) ==
    (t \div TicksPerHour) * TicksPerHour + m * TicksPerMinute

QuarterHour_floor(t) ==
    with_minute_second_nanosecond(t, QuarterHour_minute(QuarterHour_of(t)))

\* mutant: adds a full quarter of an hour before flooring
QuarterHour_ceil_full(t) ==
    LET time == t + 15 * TicksPerMinute IN
    with_minute_second_nanosecond(time, QuarterHour_minute(QuarterHour_of(time)))

QuarterHour_ceil(t) ==
    LET time == t + CeilOffsetSecs * TicksPerSec IN
    with_minute_second_nanosecond(time, QuarterHour_minute(QuarterHour_of(time)))

\* mutant: the instant is not rounded
floor_time_unrounded(t) == t

floor_time(t) == QuarterHour_floor(t)

ceil_time(t) == QuarterHour_ceil(t)

\* ---------------------------------------------------- interval.rs: Interval
Interval_open(start) == [start |-> start, duration |-> None]

Interval_closed(start, duration) == [start |-> start, duration |-> Some(duration)]

Interval_is_closed(int) == is_some(int.duration)

Interval_start(int) == int.start

Interval_end(int) ==
    IF is_some(int.duration) THEN Some(int.start + unwrap(int.duration)) ELSE None

\* mutant: a negative duration is clamped to zero
Interval_close_clamped(int, end) ==
    IF is_none(int.duration)
    THEN LET duration == end - int.start IN
         Some([start |-> int.start, duration |-> Some(IF duration < 0 THEN 0 ELSE duration)])
    ELSE None

Interval_close(int, end) ==
    IF is_none(int.duration)
    THEN LET duration == end - int.start IN
         IF duration < 0 THEN None
         ELSE Some([start |-> int.start, duration |-> Some(duration)])
    ELSE None

\* Utc::now() is the clock
Interval_close_now(int, clock) == Interval_close(int, clock)

\* mutant: the duration is taken from the unrounded start
Interval_round_from_old_start(int) ==
    LET start == QuarterHour_floor(Interval_start(int))
        end == Interval_end(int)
        duration == IF is_some(end)
                    THEN LET d == QuarterHour_ceil(unwrap(end)) - Interval_start(int) IN
                         IF d >= 0 THEN Some(d) ELSE None
                    ELSE None
    IN [start |-> start, duration |-> duration]

\* (QuarterHour::ceil(&end) - start).to_std().ok(): a negative difference is None
Interval_round_to_quarter_hours(int) ==
    LET start == QuarterHour_floor(Interval_start(int))
        end == Interval_end(int)
        duration == IF is_some(end)
                    THEN LET d == QuarterHour_ceil(unwrap(end)) - start IN
                         IF d >= 0 THEN Some(d) ELSE None
                    ELSE None
    IN [start |-> start, duration |-> duration]

\* duration of an open interval is measured up to the quarter-hour ceiling of now
Interval_duration(int, clock) ==
    IF is_some(int.duration) THEN unwrap(int.duration)
    ELSE ceil_time(clock) - int.start

\* ---------------------------------------------- interval.rs: TaggedInterval
TaggedInterval_new(tag, interval) == [tag |-> tag, interval |-> interval]

TaggedInterval_open(tag, start) == [tag |-> tag, interval |-> Interval_open(start)]

TaggedInterval_close(ti, end) ==
    LET interval == Interval_close(ti.interval, end) IN
    IF is_none(interval) THEN None
    ELSE Some([tag |-> ti.tag, interval |-> unwrap(interval)])

\* Utc::now() is the clock
TaggedInterval_close_now(ti, clock) ==
    LET interval == Interval_close_now(ti.interval, clock) IN
    IF is_none(interval) THEN None
    ELSE Some([tag |-> ti.tag, interval |-> unwrap(interval)])

TaggedInterval_is_closed(ti) == Interval_is_closed(ti.interval)

TaggedInterval_start(ti) == Interval_start(ti.interval)

TaggedInterval_end(ti) == Interval_end(ti.interval)

TaggedInterval_duration(ti, clock) == Interval_duration(ti.interval, clock)

TaggedInterval_round_to_quarter_hours(ti) ==
    [tag |-> ti.tag, interval |-> Interval_round_to_quarter_hours(ti.interval)]

\* --------------------------------------- v2/interval.rs: RestrictedDuration
\* v2 QuarterHour is "Q0", "Q15", "Q30" or "Q45"; a RestrictedDuration is
\* [hours, quarter_hour]; a std Duration is a number of ticks.
v2_QuarterHour_from_int(n) ==
    CASE n % 4 = 0 -> "Q0"
      [] n % 4 = 1 -> "Q15"
      [] n % 4 = 2 -> "Q30"
      [] n % 4 = 3 -> "Q45"

v2_QuarterHour_as_int(qh) ==
    CASE qh = "Q0" -> 0
      [] qh = "Q15" -> 1
      [] qh = "Q30" -> 2
      [] qh = "Q45" -> 3

v2_QuarterHour_from_minutes(minutes) == v2_QuarterHour_from_int(minutes \div 15)

v2_QuarterHour_minute(qh) == v2_QuarterHour_as_int(qh) * 15

\* Duration::as_secs(): the whole seconds
as_secs(duration) == duration \div TicksPerSec

\* impl From<Duration> for RestrictedDuration
RestrictedDuration_from(value) ==
    LET minutes == as_secs(value) \div 60 IN
    [hours |-> minutes \div 60, quarter_hour |-> v2_QuarterHour_from_minutes(minutes)]

\* impl From<RestrictedDuration> for Duration
Duration_from(value) ==
    (value.hours * 3600 + v2_QuarterHour_minute(value.quarter_hour) * 60) * TicksPerSec

RestrictedDuration_floor_duration(duration) == RestrictedDuration_from(duration)

RestrictedDuration_ceil_duration(duration) ==
    RestrictedDuration_from(duration + 14 * 60 * TicksPerSec)

\* ------------------------------------------------------------------ tags.rs
\* Tags { tag_ids: HashMap<String, TagId>, tag_names: Vec<String> }; ids are
\* 0-based, tag_names[id + 1] is the name of id.
EmptyMap == [n \in {} |-> 0]

Tags_new == [tag_ids |-> EmptyMap, tag_names |-> << >>]

\* mutant: ids are handed out from 1
Tags_insert_from_one(tags, tag_name) ==
    IF tag_name \in DOMAIN tags.tag_ids
    THEN << [ok |-> FALSE, id |-> 0, err |-> "TagExists"], tags >>
    ELSE LET id == Len(tags.tag_names) + 1 IN
         << [ok |-> TRUE, id |-> id, err |-> ""],
            [tag_ids |-> [n \in DOMAIN tags.tag_ids \cup {tag_name} |->
                            IF n = tag_name THEN id ELSE tags.tag_ids[n]],
             tag_names |-> Append(tags.tag_names, tag_name)] >>

\* returns <<result, tags afterwards>>
Tags_insert(tags, tag_name) ==
    IF tag_name \in DOMAIN tags.tag_ids
    THEN << [ok |-> FALSE, id |-> 0, err |-> "TagExists"], tags >>
    ELSE LET id == Len(tags.tag_names) IN
         << [ok |-> TRUE, id |-> id, err |-> ""],
            [tag_ids |-> [n \in DOMAIN tags.tag_ids \cup {tag_name} |->
                            IF n = tag_name THEN id ELSE tags.tag_ids[n]],
             tag_names |-> Append(tags.tag_names, tag_name)] >>

Tags_get_id(tags, tag_name) ==
    IF tag_name \in DOMAIN tags.tag_ids THEN Some(tags.tag_ids[tag_name]) ELSE None

Tags_get_name(tags, tag_id) ==
    IF tag_id + 1 \in DOMAIN tags.tag_names THEN Some(tags.tag_names[tag_id + 1]) ELSE None

\* mutant: a new name gets the size of the registry after the insert
Tags_get_id_or_insert_size(tags, tag_name) ==
    IF tag_name \in DOMAIN tags.tag_ids
    THEN << tags.tag_ids[tag_name], tags >>
    ELSE LET r == Tags_insert(tags, tag_name) IN << Len(r[2].tag_names), r[2] >>

\* returns <<id, tags afterwards>>
Tags_get_id_or_insert(tags, tag_name) ==
    IF tag_name \in DOMAIN tags.tag_ids
    THEN << tags.tag_ids[tag_name], tags >>
    ELSE LET r == Tags_insert(tags, tag_name) IN << r[1].id, r[2] >>

\* ---------------------------------------------------------------- filter.rs
\* A filter is its postfix node sequence; a node is [k |-> kind, v |-> operand].
Node(k, v) == [k |-> k, v |-> v]
NodeTrue == Node("True", 0)
NodeFalse == Node("False", 0)

pop(stack, default) == IF Len(stack) = 0 THEN default ELSE stack[Len(stack)]
popped(stack) == IF Len(stack) = 0 THEN stack ELSE SubSeq(stack, 1, Len(stack) - 1)

\* FilterNode::eval: the value stack after the node
FilterNode_eval(node, stack, int, clock) ==
    LET end == TaggedInterval_end(int) IN
    CASE node.k = "True" -> Append(stack, TRUE)
      [] node.k = "False" -> Append(stack, FALSE)
      [] node.k = "HasTag" -> Append(stack, int.tag = node.v)
      [] node.k = "IsClosed" -> Append(stack, is_some(end))
      [] node.k = "StartedBefore" -> Append(stack, TaggedInterval_start(int) <= node.v)
      [] node.k = "EndedBefore" ->
            Append(stack, IF is_some(end) THEN unwrap(end) <= node.v ELSE FALSE)
      [] node.k = "ShorterThan" ->
            Append(stack, TaggedInterval_duration(int, clock) <= node.v)
      [] node.k = "StartedBeforeStrict" -> Append(stack, TaggedInterval_start(int) < node.v)
      [] node.k = "EndedBeforeStrict" ->
            Append(stack, IF is_some(end) THEN unwrap(end) < node.v ELSE FALSE)
      [] node.k = "ShorterThanStrict" ->
            Append(stack, TaggedInterval_duration(int, clock) < node.v)
      [] node.k = "Not" ->
            LET b == pop(stack, FALSE) IN Append(popped(stack), ~b)
      [] node.k = "And" ->
            LET b2 == pop(stack, FALSE)
                s1 == popped(stack)
                b1 == pop(s1, FALSE)
            IN Append(popped(s1), b1 /\ b2)
      [] node.k = "Or" ->
            LET b2 == pop(stack, FALSE)
                s1 == popped(stack)
                b1 == pop(s1, FALSE)
            IN Append(popped(s1), b1 \/ b2)

RECURSIVE eval_nodes(_, _, _, _, _)
eval_nodes(nodes, i, stack, int, clock) ==
    IF i > Len(nodes) THEN stack
    ELSE eval_nodes(nodes, i + 1, FilterNode_eval(nodes[i], stack, int, clock), int, clock)

Filter_eval(nodes, int, clock) == pop(eval_nodes(nodes, 1, << >>, int, clock), FALSE)

\* mutant: the nodes of the other operand are not appended
Filter_or_dropping_other(self, other) ==
    IF self = << NodeTrue >> THEN self
    ELSE IF other = << NodeTrue >> THEN other
    ELSE IF self = << NodeFalse >> THEN other
    ELSE IF other = << NodeFalse >> THEN self
    ELSE Append(self, Node("Or", 0))

Filter_or(self, other) ==
    IF self = << NodeTrue >> THEN self
    ELSE IF other = << NodeTrue >> THEN other
    ELSE IF self = << NodeFalse >> THEN other
    ELSE IF other = << NodeFalse >> THEN self
    ELSE Append(self \o other, Node("Or", 0))

\* mutant: a False receiver yields the other operand, as in or
Filter_and_false_yields_other(self, other) ==
    IF self = << NodeTrue >> THEN other
    ELSE IF other = << NodeTrue >> THEN self
    ELSE IF self = << NodeFalse >> THEN other
    ELSE IF other = << NodeFalse >> THEN self
    ELSE Append(self \o other, Node("And", 0))

Filter_and(self, other) ==
    IF self = << NodeTrue >> THEN other
    ELSE IF other = << NodeTrue >> THEN self
    ELSE IF self = << NodeFalse >> THEN self
    ELSE IF other = << NodeFalse >> THEN other
    ELSE Append(self \o other, Node("And", 0))

\* mutant: a trailing Not is removed instead of a second one being appended
Filter_inverted_collapsing(self) ==
    IF self = << NodeFalse >> THEN << NodeTrue >>
    ELSE IF self = << NodeTrue >> THEN << NodeFalse >>
    ELSE IF self[Len(self)].k = "Not" THEN SubSeq(self, 1, Len(self) - 1)
    ELSE Append(self, Node("Not", 0))

Filter_inverted(self) ==
    IF self = << NodeFalse >> THEN << NodeTrue >>
    ELSE IF self = << NodeTrue >> THEN << NodeFalse >>
    ELSE Append(self, Node("Not", 0))

filter_true == << NodeTrue >>
filter_false == << NodeFalse >>

\* ConstFilter is "False", "True" or "NonConst"
\* mutant: the negation of a non-constant value is False
ConstFilter_not_nonconst_false(b) ==
    CASE b = "False" -> "True"
      [] b = "True" -> "False"
      [] b = "NonConst" -> "False"

ConstFilter_not(b) ==
    CASE b = "False" -> "True"
      [] b = "True" -> "False"
      [] b = "NonConst" -> "NonConst"

ConstFilter_bitand(lhs, rhs) ==
    IF lhs = "False" THEN "False"
    ELSE IF rhs = "False" THEN "False"
    ELSE IF lhs = "True" THEN rhs
    ELSE IF rhs = "True" THEN lhs
    ELSE "NonConst"

\* mutant: two non-constant operands give True
ConstFilter_bitor_default_true(lhs, rhs) ==
    IF lhs = "False" THEN rhs
    ELSE IF rhs = "False" THEN lhs
    ELSE "True"

ConstFilter_bitor(lhs, rhs) ==
    IF lhs = "False" THEN rhs
    ELSE IF rhs = "False" THEN lhs
    ELSE IF lhs = "True" THEN "True"
    ELSE IF rhs = "True" THEN "True"
    ELSE "NonConst"

\* FilterNode::eval_const: the value stack after the node
FilterNode_eval_const(node, stack) ==
    CASE node.k = "True" -> Append(stack, "True")
      [] node.k = "False" -> Append(stack, "False")
      [] node.k = "Not" ->
            LET b == pop(stack, "False") IN Append(popped(stack), ConstFilter_not(b))
      [] node.k = "And" ->
            LET b2 == pop(stack, "False")
                s1 == popped(stack)
                b1 == pop(s1, "False")
            IN Append(popped(s1), ConstFilter_bitand(b1, b2))
      [] node.k = "Or" ->
            LET b2 == pop(stack, "False")
                s1 == popped(stack)
                b1 == pop(s1, "False")
            IN Append(popped(s1), ConstFilter_bitor(b1, b2))
      [] OTHER -> Append(stack, "NonConst")

RECURSIVE eval_const_nodes(_, _, _)
eval_const_nodes(nodes, i, stack) ==
    IF i > Len(nodes) THEN stack
    ELSE eval_const_nodes(nodes, i + 1, FilterNode_eval_const(nodes[i], stack))

Filter_eval_const(nodes) == pop(eval_const_nodes(nodes, 1, << >>), "False")

Filter_evals_true(nodes) == Filter_eval_const(nodes) = "True"

Filter_evals_false(nodes) == Filter_eval_const(nodes) = "False"

Filter_evals_nonconst(nodes) == Filter_eval_const(nodes) = "NonConst"

\* filters.into_iter().fold(init, f), the list from position i on
RECURSIVE fold_and(_, _, _)
fold_and(acc, filters, i) ==
    IF i > Len(filters) THEN acc ELSE fold_and(Filter_and(acc, filters[i]), filters, i + 1)

RECURSIVE fold_or(_, _, _)
fold_or(acc, filters, i) ==
    IF i > Len(filters) THEN acc ELSE fold_or(Filter_or(acc, filters[i]), filters, i + 1)

\* mutant: the fold starts from the False filter
and_all_from_false(filters) == fold_and(<< NodeFalse >>, filters, 1)

and_all(filters) == fold_and(filter_true, filters, 1)

or_all(filters) == fold_or(filter_false, filters, 1)
has_tag(tag) == << Node("HasTag", tag) >>
is_closed == << Node("IsClosed", 0) >>
\* mutant: the negation is missing
is_open_unnegated == is_closed
is_open == Filter_inverted(is_closed)
started_before(time) == << Node("StartedBefore", time) >>
ended_before(time) == << Node("EndedBefore", time) >>
shorter_than(duration) == << Node("ShorterThan", duration) >>
started_before_strict(time) == << Node("StartedBeforeStrict", time) >>
ended_before_strict(time) == << Node("EndedBeforeStrict", time) >>
shorter_than_strict(duration) == << Node("ShorterThanStrict", duration) >>
\* mutant: built on the non-strict terminal
started_after_on_nonstrict(time) == Filter_inverted(started_before(time))
started_after(time) == Filter_inverted(started_before_strict(time))
\* mutant: built on the non-strict terminal
ended_after_on_nonstrict(time) == Filter_and(is_closed, Filter_inverted(ended_before(time)))
ended_after(time) == Filter_and(is_closed, Filter_inverted(ended_before_strict(time)))
started_after_strict(time) == Filter_inverted(started_before(time))
\* mutant: built on the strict terminal
ended_after_strict_on_strict(time) ==
    Filter_and(is_closed, Filter_inverted(ended_before_strict(time)))
ended_after_strict(time) == Filter_and(is_closed, Filter_inverted(ended_before(time)))
\* mutant: built on the non-strict terminal
longer_than_on_nonstrict(duration) == Filter_inverted(shorter_than(duration))
longer_than(duration) == Filter_inverted(shorter_than_strict(duration))
longer_than_strict(duration) == Filter_inverted(shorter_than(duration))

\* --------------------------------------------------------------- timelog.rs
\* TimeLog { tags, intervals }.  Result<TaggedInterval, TimeLogError> is
\* [ok, val, err]; a failed unwrap() (process abort) is err = "panic".
Ok(ti) == [ok |-> TRUE, val |-> Some(ti), err |-> ""]
Err(e) == [ok |-> FALSE, val |-> None, err |-> e]
Unit == [ok |-> TRUE, val |-> None, err |-> ""]
Panic == Err("panic")

TimeLog_new == [tags |-> Tags_new, intervals |-> << >>]

Min(S) == CHOOSE x \in S : \A y \in S : x <= y

\* iter_mut().find(filter.build_mut()): index of the first match, 0 if none
find(ints, filter, clock) ==
    LET matches == { i \in 1..Len(ints) : Filter_eval(filter, ints[i], clock) } IN
    IF matches = {} THEN 0 ELSE Min(matches)

\* mutant: open intervals are not searched for
open_filter_closed_only(tag, now_floor) == Filter_and(has_tag(tag), ended_after(now_floor))

\* the filter open() searches with (timelog.rs:103)
open_filter(tag, now_floor) ==
    Filter_and(has_tag(tag), Filter_or(is_open, ended_after(now_floor)))

\* mutant: any interval of the tag matches
close_filter_any(tag) == has_tag(tag)

\* the filter close() searches with (timelog.rs:127)
close_filter(tag) == Filter_and(has_tag(tag), is_open)

\* mutant: a reopened interval starts at the floored current time
TimeLog_open_restarting(log, tag_name, clock) ==
    LET r == Tags_get_id_or_insert(log.tags, tag_name)
        tag == r[1]
        tags1 == r[2]
        now_floor == floor_time(clock)
        filter == open_filter(tag, now_floor)
        i == find(log.intervals, filter, clock)
    IN IF i # 0
       THEN LET int == log.intervals[i] IN
            IF ~TaggedInterval_is_closed(int)
            THEN << Err("TagAlreadyOpen"), [tags |-> tags1, intervals |-> log.intervals] >>
            ELSE LET new_int == TaggedInterval_open(int.tag, now_floor) IN
                 << Ok(new_int),
                    [tags |-> tags1, intervals |-> [log.intervals EXCEPT ![i] = new_int]] >>
       ELSE LET new_int == TaggedInterval_open(tag, now_floor) IN
            << Ok(new_int), [tags |-> tags1, intervals |-> Append(log.intervals, new_int)] >>

\* returns <<result, log afterwards>>
TimeLog_open(log, tag_name, clock) ==
    LET r == Tags_get_id_or_insert(log.tags, tag_name)
        tag == r[1]
        tags1 == r[2]
        now_floor == floor_time(clock)
        filter == open_filter(tag, now_floor)
        i == find(log.intervals, filter, clock)
    IN IF i # 0
       THEN LET int == log.intervals[i] IN
            IF ~TaggedInterval_is_closed(int)
            THEN << Err("TagAlreadyOpen"), [tags |-> tags1, intervals |-> log.intervals] >>
            ELSE LET new_int == TaggedInterval_open(int.tag, TaggedInterval_start(int)) IN
                 << Ok(new_int),
                    [tags |-> tags1, intervals |-> [log.intervals EXCEPT ![i] = new_int]] >>
       ELSE LET new_int == TaggedInterval_open(tag, now_floor) IN
            << Ok(new_int), [tags |-> tags1, intervals |-> Append(log.intervals, new_int)] >>

\* mutant: the closed interval is stored as it is, not rounded
TimeLog_close_unrounded(log, tag_name, clock) ==
    LET id == Tags_get_id(log.tags, tag_name) IN
    IF is_none(id) THEN << Err("TagNotOpen"), log >>
    ELSE LET tag == unwrap(id)
             filter == close_filter(tag)
             i == find(log.intervals, filter, clock)
         IN IF i # 0
            THEN LET closed == TaggedInterval_close_now(log.intervals[i], clock) IN
                 IF is_none(closed) THEN << Panic, log >>
                 ELSE LET int == unwrap(closed) IN
                      << Ok(int),
                         [tags |-> log.tags, intervals |-> [log.intervals EXCEPT ![i] = int]] >>
            ELSE << Err("TagNotOpen"), log >>

TimeLog_close(log, tag_name, clock) ==
    LET id == Tags_get_id(log.tags, tag_name) IN
    IF is_none(id) THEN << Err("TagNotOpen"), log >>
    ELSE LET tag == unwrap(id)
             filter == close_filter(tag)
             i == find(log.intervals, filter, clock)
         IN IF i # 0
            THEN LET closed == TaggedInterval_close_now(log.intervals[i], clock) IN
                 IF is_none(closed) THEN << Panic, log >>
                 ELSE LET int == TaggedInterval_round_to_quarter_hours(unwrap(closed)) IN
                      << Ok(int),
                         [tags |-> log.tags, intervals |-> [log.intervals EXCEPT ![i] = int]] >>
            ELSE << Err("TagNotOpen"), log >>

RECURSIVE filter_seq(_, _, _)
filter_seq(ints, filter, clock) ==
    IF ints = << >> THEN << >>
    ELSE IF Filter_eval(filter, Head(ints), clock)
         THEN << Head(ints) >> \o filter_seq(Tail(ints), filter, clock)
         ELSE filter_seq(Tail(ints), filter, clock)

TimeLog_retain(log, filter, clock) ==
    [tags |-> log.tags, intervals |-> filter_seq(log.intervals, filter, clock)]

\* remove(f) is retain(|int| !f(int)): the closure negates the predicate's value
RECURSIVE reject_seq(_, _, _)
reject_seq(ints, filter, clock) ==
    IF ints = << >> THEN << >>
    ELSE IF ~Filter_eval(filter, Head(ints), clock)
         THEN << Head(ints) >> \o reject_seq(Tail(ints), filter, clock)
         ELSE reject_seq(Tail(ints), filter, clock)

\* mutant: the predicate's value is not negated
TimeLog_remove_unnegated(log, filter, clock) ==
    [tags |-> log.tags, intervals |-> filter_seq(log.intervals, filter, clock)]

TimeLog_remove(log, filter, clock) ==
    [tags |-> log.tags, intervals |-> reject_seq(log.intervals, filter, clock)]

\* mutant: the interval gets the id that was free before the lookup
TimeLog_insert_unchecked_next_id(log, tag_name, int) ==
    LET r == Tags_get_id_or_insert(log.tags, tag_name) IN
    [tags |-> r[2],
     intervals |-> Append(log.intervals, TaggedInterval_new(Len(log.tags.tag_names), int))]

TimeLog_insert_unchecked(log, tag_name, int) ==
    LET r == Tags_get_id_or_insert(log.tags, tag_name) IN
    [tags |-> r[2], intervals |-> Append(log.intervals, TaggedInterval_new(r[1], int))]

\* the loop of gc_tag_names from interval i on; None when get_name(..).unwrap() fails
RECURSIVE gc_replay(_, _, _)
gc_replay(log, i, new_log) ==
    IF i > Len(log.intervals) THEN Some(new_log)
    ELSE LET int == log.intervals[i]
             tag == Tags_get_name(log.tags, int.tag)
         IN IF is_none(tag) THEN None
            ELSE gc_replay(log, i + 1, TimeLog_insert_unchecked(new_log, unwrap(tag), int.interval))

\* mutant: the old registry is kept
TimeLog_gc_tag_names_keep_tags(log) ==
    LET new_log == gc_replay(log, 1, TimeLog_new) IN
    IF is_none(new_log) THEN << Panic, log >> ELSE << Unit, log >>

\* returns <<result, log afterwards>>
TimeLog_gc_tag_names(log) ==
    LET new_log == gc_replay(log, 1, TimeLog_new) IN
    IF is_none(new_log) THEN << Panic, log >> ELSE << Unit, unwrap(new_log) >>

\* -------------------------------------------------- commands.rs: TagsInRange
\* TagsInRange { before, after, today, open, closed, tags }
Day == 24 * TicksPerHour

\* A zone is what chrono's Local reads from the zone file: first is what local
\* time is ahead of UTC before the transitions, and transitions lists, in
\* increasing order of at, the changes [at, offset]: from the UTC instant at
\* on local time is ahead by offset.
FixedZone(offset) == [first |-> offset, transitions |-> << >>]

\* Local::now().offset(): the offset in force at the UTC instant clock, that
\* of the last transition at or before it
RECURSIVE offset_from_utc_datetime(_, _, _, _)
offset_from_utc_datetime(transitions, i, prev, clock) ==
    IF i > Len(transitions) THEN prev
    ELSE IF clock < transitions[i].at THEN prev
    ELSE offset_from_utc_datetime(transitions, i + 1, transitions[i].offset, clock)

\* Local.from_local_datetime(..): the offsets a local time can have, as the
\* LocalResult << >> (None), << offset >> (Single) or << min, max >>
\* (Ambiguous).  Every transition is looked at in turn.  Where local time is
\* put back, the local times from where it lands to where it left, both
\* included, are ambiguous; where it is put forward, the local time at which
\* it leaves still has the earlier offset, those skipped have none, and the
\* one where it lands has the later offset.
RECURSIVE offset_from_local_datetime(_, _, _, _)
offset_from_local_datetime(transitions, i, prev, local_time) ==
    IF i > Len(transitions) THEN << prev >>
    ELSE LET after == transitions[i].offset
             transition_end == transitions[i].at + after
             transition_start == transitions[i].at + prev
             ambiguous == IF prev < after THEN << prev, after >> ELSE << after, prev >>
             later == offset_from_local_datetime(transitions, i + 1, after, local_time)
         IN IF transition_start > transition_end
            THEN IF local_time < transition_end THEN << prev >>
                 ELSE IF local_time <= transition_start THEN ambiguous
                 ELSE later
            ELSE IF transition_start = transition_end
            THEN IF local_time < transition_start THEN << prev >>
                 ELSE IF local_time = transition_end THEN ambiguous
                 ELSE later
            ELSE IF local_time <= transition_start THEN << prev >>
                 ELSE IF local_time < transition_end THEN << >>
                 ELSE IF local_time = transition_end THEN << after >>
                 ELSE later

\* Local::today() is the date of clock with the offset in force at clock;
\* and_hms(0, 0, 0) is the local midnight of that date and panics ("invalid
\* time") unless that is a Single offset, else it is the UTC instant
\* date * Day - offset; "todaytime - todaytime.offset().fix()" then moves that
\* instant back by the offset once more.  Ok(instant) or Panic.
todaytime_of(clock, zone) ==
    LET today == (clock + offset_from_utc_datetime(zone.transitions, 1, zone.first, clock)) \div Day
        midnight == offset_from_local_datetime(zone.transitions, 1, zone.first, today * Day)
    IN IF Len(midnight) # 1 THEN Panic
       ELSE LET offset == midnight[1]
                todaytime == today * Day - offset
            IN Ok(todaytime - offset)

\* self.tags.iter().filter_map(..): has_tag filters of the names the log knows
RECURSIVE known_tag_filters(_, _, _)
known_tag_filters(names, log, i) ==
    IF i > Len(names) THEN << >>
    ELSE LET tag == Tags_get_id(log.tags, names[i]) IN
         (IF is_some(tag) THEN << has_tag(unwrap(tag)) >> ELSE << >>)
             \o known_tag_filters(names, log, i + 1)

\* Result<Filter, CommandError>; today is what todaytime_of gives, computed
\* in the first lines for every criteria
TagsInRange_filter(info, log, today) ==
    IF ~today.ok THEN today ELSE
    LET todaytime == unwrap(today.val)
        tags_filter ==
            IF info.tags = << >> THEN filter_true
            ELSE or_all(known_tag_filters(info.tags, log, 1))
        tomorrowtime == todaytime + Day
        before_filter ==
            IF is_some(info.before)
            THEN IF info.today /\ tomorrowtime < unwrap(info.before)
                 THEN started_before(tomorrowtime)
                 ELSE started_before(unwrap(info.before))
            ELSE IF info.today THEN started_before(tomorrowtime)
            ELSE filter_true
        after_filter ==
            IF is_some(info.after)
            THEN Filter_or(is_open,
                           IF info.today /\ unwrap(info.after) < todaytime
                           THEN ended_after_strict(todaytime)
                           ELSE ended_after_strict(unwrap(info.after)))
            ELSE IF info.today THEN Filter_or(is_open, ended_after_strict(todaytime))
            ELSE filter_true
    IN IF info.open /\ info.closed THEN Err("InconsistentFilter")
       ELSE LET open_closed_filter ==
                    IF info.open THEN is_open
                    ELSE IF info.closed THEN is_closed
                    ELSE filter_true
            IN Ok(Filter_and(Filter_and(Filter_and(tags_filter, before_filter), after_filter),
                             open_closed_filter))

\* CommandContext::purge: the first line it writes to the error output
purge_message(filter, log, clock) ==
    IF \E i \in 1..Len(log.intervals) : Filter_eval(filter, log.intervals[i], clock)
    THEN IF Filter_evals_true(filter) THEN "Purging ALL INTERVALS!"
         ELSE "Purging the following intervals:"
    ELSE "No intervals match filter criteria; purge cancelled."

\* ------------------------------------------ commands.rs: the command handlers
\* A handler returns << Result<ChangeStatus, CommandError>, log afterwards >>.
Changed == Ok("Changed")
Unchanged == Ok("Unchanged")

\* Outputs { output, error: Option }: a writer is TRUE when writes to it
\* succeed and FALSE when they fail (a closed or full stdout / stderr)
Outputs_new(output, error) == [output |-> output, error |-> error]

Outputs_output_mut(outputs) == outputs.output

\* self.error.as_mut().unwrap_or(&mut self.output)
Outputs_error_mut(outputs) ==
    IF is_some(outputs.error) THEN unwrap(outputs.error) ELSE outputs.output

\* StdOutputs::default() over the process's stdout and stderr
StdOutputs_default(stdout, stderr) == Outputs_new(stdout, Some(stderr))

\* writeln!(writer, ..): Ok(()) or CommandError::IoError
writeln(writer) == IF writer THEN Unit ELSE Err("IoError")

\* A line is the sequence of its characters.
Line_y == << "y", "\n" >>
Line_N == << "N", "\n" >>
Line_ok == << "o", "k", "\n" >>
Line_Yes == << "Y", "e", "s", "\n" >>
Line_no == << "n", "o", "\n" >>
Line_question == << "?", "\n" >>

\* char::to_uppercase on the characters that are typed
Uppercase ==
    [c \in { "y", "e", "s", "n", "o", "k", "Y", "E", "S", "N", "O", "K", "?", "\n" } |->
        CASE c = "y" -> "Y" [] c = "e" -> "E" [] c = "s" -> "S" [] c = "n" -> "N"
          [] c = "o" -> "O" [] c = "k" -> "K" [] OTHER -> c]

to_uppercase(line) == [i \in 1..Len(line) |-> Uppercase[line[i]]]

\* user_confirmation(default): stdin is the sequence of what read_line will
\* return, Ok(line) or Err for bytes that are not UTF-8, and end of input
\* (an empty line) once the sequence is used up.  Result<bool, CommandError>.
RECURSIVE user_confirmation(_, _, _)
user_confirmation(stdin, outputs, default) ==
    IF ~writeln(Outputs_error_mut(outputs)).ok THEN Err("IoError")
    ELSE IF stdin = << >> THEN Ok(default)
    ELSE IF ~Head(stdin).ok THEN Panic
    ELSE LET line == unwrap(Head(stdin).val) IN
         IF Len(line) < 2 THEN Ok(default)
         ELSE IF Len(line) = 2
              THEN IF line[1] \in { "y", "Y" } THEN Ok(TRUE)
                   ELSE IF line[1] \in { "n", "N" } THEN Ok(FALSE)
                   ELSE user_confirmation(Tail(stdin), outputs, default)
              ELSE LET upper == to_uppercase(line) IN
                   IF upper = << "Y", "E", "S", "\n" >> THEN Ok(TRUE)
                   ELSE IF upper = << "N", "O", "\n" >> THEN Ok(FALSE)
                   ELSE user_confirmation(Tail(stdin), outputs, default)

any(log, filter, clock) ==
    \E i \in 1..Len(log.intervals) : Filter_eval(filter, log.intervals[i], clock)

\* list_filter: tag_name(int.tag()).unwrap() on every matching interval, then
\* one line per matching interval on the output
list_filter(log, filter, outputs, clock) ==
    IF \E i \in 1..Len(log.intervals) :
            /\ Filter_eval(filter, log.intervals[i], clock)
            /\ is_none(Tags_get_name(log.tags, log.intervals[i].tag))
    THEN Panic
    ELSE IF any(log, filter, clock) THEN writeln(Outputs_output_mut(outputs))
    ELSE Unit

\* tag.as_ref().cloned().unwrap_or_else(|| "default".into())
tag_or_default(tag) == IF is_some(tag) THEN unwrap(tag) ELSE "default"

\* match self.timelog.open(tag) and the message that follows
open_and_report(log, tag, outputs, clock) ==
    LET r == TimeLog_open(log, tag, clock) IN
    IF ~r[1].ok THEN << r[1], r[2] >>
    ELSE IF ~writeln(Outputs_error_mut(outputs)).ok THEN << Err("IoError"), r[2] >>
    ELSE << Changed, r[2] >>

CommandContext_open(log, tag, create, stdin, outputs, clock) ==
    IF is_none(Tags_get_id(log.tags, tag)) /\ tag # "default" /\ ~create
    THEN IF ~writeln(Outputs_error_mut(outputs)).ok THEN << Err("IoError"), log >>
         ELSE LET c == user_confirmation(stdin, outputs, FALSE) IN
              IF ~c.ok THEN << c, log >>
              ELSE IF ~unwrap(c.val)
                   THEN IF ~writeln(Outputs_error_mut(outputs)).ok
                        THEN << Err("IoError"), log >>
                        ELSE << Unchanged, log >>
                   ELSE open_and_report(log, tag, outputs, clock)
    ELSE open_and_report(log, tag, outputs, clock)

CommandContext_close(log, tag, outputs, clock) ==
    LET r == TimeLog_close(log, tag, clock) IN
    IF ~r[1].ok THEN << r[1], r[2] >>
    ELSE IF ~writeln(Outputs_error_mut(outputs)).ok THEN << Err("IoError"), r[2] >>
    ELSE << Changed, r[2] >>

CommandContext_list(log, info, outputs, clock, zone) ==
    LET f == TagsInRange_filter(info, log, todaytime_of(clock, zone)) IN
    IF ~f.ok THEN << f, log >>
    ELSE LET l == list_filter(log, unwrap(f.val), outputs, clock) IN
         IF ~l.ok THEN << l, log >> ELSE << Unchanged, log >>

\* mutant: a declined purge still removes the intervals
CommandContext_purge_regardless(log, info, stdin, outputs, clock, zone) ==
    LET f == TagsInRange_filter(info, log, todaytime_of(clock, zone)) IN
    IF ~f.ok THEN << f, log >>
    ELSE LET filter == unwrap(f.val)
             error == writeln(Outputs_error_mut(outputs))
         IN
         IF any(log, filter, clock)
         THEN LET l == IF Filter_evals_true(filter) THEN Unit
                       ELSE list_filter(log, filter, outputs, clock)
                  c == user_confirmation(stdin, outputs, FALSE)
              IN IF ~error.ok THEN << error, log >>
                 ELSE IF ~l.ok THEN << l, log >>
                 ELSE IF ~c.ok THEN << c, log >>
                 ELSE LET g == TimeLog_gc_tag_names(TimeLog_remove(log, filter, clock)) IN
                      IF g[1] = Panic THEN << Panic, g[2] >>
                      ELSE << IF unwrap(c.val) THEN Changed ELSE Unchanged, g[2] >>
         ELSE IF ~error.ok THEN << error, log >> ELSE << Unchanged, log >>

CommandContext_purge(log, info, stdin, outputs, clock, zone) ==
    LET f == TagsInRange_filter(info, log, todaytime_of(clock, zone)) IN
    IF ~f.ok THEN << f, log >>
    ELSE LET filter == unwrap(f.val)
             error == writeln(Outputs_error_mut(outputs))
         IN
         IF any(log, filter, clock)
         THEN LET l == IF Filter_evals_true(filter) THEN Unit
                       ELSE list_filter(log, filter, outputs, clock)
                  c == user_confirmation(stdin, outputs, FALSE)
              IN IF ~error.ok THEN << error, log >>
                 ELSE IF ~l.ok THEN << l, log >>
                 ELSE IF ~c.ok THEN << c, log >>
                 ELSE IF unwrap(c.val)
                      THEN LET g == TimeLog_gc_tag_names(TimeLog_remove(log, filter, clock)) IN
                           IF g[1] = Panic THEN << Panic, g[2] >> ELSE << Changed, g[2] >>
                      ELSE << Unchanged, log >>
         ELSE IF ~error.ok THEN << error, log >> ELSE << Unchanged, log >>

CommandContext_aggregate(log, info, outputs, clock, zone) ==
    LET f == TagsInRange_filter(info, log, todaytime_of(clock, zone)) IN
    IF ~f.ok THEN << f, log >>
    ELSE LET l == list_filter(log, unwrap(f.val), outputs, clock) IN
         IF ~writeln(Outputs_error_mut(outputs)).ok THEN << Err("IoError"), log >>
         ELSE IF ~l.ok THEN << l, log >>
         ELSE IF ~writeln(Outputs_output_mut(outputs)).ok THEN << Err("IoError"), log >>
         ELSE << Unchanged, log >>

\* the filter of the status command
status_filter(log, names) ==
    IF names = << >> THEN is_open
    ELSE Filter_and(is_open, or_all(known_tag_filters(names, log, 1)))

CommandContext_status(log, names, outputs, clock) ==
    LET filter == status_filter(log, names) IN
    IF ~writeln(Outputs_error_mut(outputs)).ok THEN << Err("IoError"), log >>
    ELSE IF any(log, filter, clock)
         THEN LET l == list_filter(log, filter, outputs, clock) IN
              IF ~l.ok THEN << l, log >> ELSE << Unchanged, log >>
         ELSE << Unchanged, log >>

\* the names are collected (tag_name(..).unwrap()), then written one a line
CommandContext_tags(log, outputs) ==
    IF \E i \in 1..Len(log.intervals) : is_none(Tags_get_name(log.tags, log.intervals[i].tag))
    THEN << Panic, log >>
    ELSE IF log.intervals # << >> /\ ~writeln(Outputs_output_mut(outputs)).ok
         THEN << Err("IoError"), log >>
         ELSE << Unchanged, log >>

\* ------------------------------------------------- tags.rs: serialization
\* impl Serialize for Tags: the list of the names
Tags_serialize(tags) == tags.tag_names

\* impl Deserialize for Tags: the ids are the positions; a name that occurs
\* twice is an error
Tags_deserialize(tag_names) ==
    IF \E i, j \in 1..Len(tag_names) : i # j /\ tag_names[i] = tag_names[j]
    THEN Err("TagExists")
    ELSE Ok([tag_ids |-> [n \in { tag_names[i] : i \in 1..Len(tag_names) } |->
                            (CHOOSE i \in 1..Len(tag_names) : tag_names[i] = n) - 1],
             tag_names |-> tag_names])

\* ------------------------------------------------------- config.rs: the file
\* The file at the logfile path is None when there is none, else Some(text);
\* a text is Some(document), a JSON document of a log, or None for bytes that
\* are no such document.  A disk is [open, create]: open is "ok" or "denied"
\* (File::open fails for another reason than a missing file), create is "ok",
\* "denied" (File::create fails) or "full" (the file is created but cannot be
\* written to).
Document(doc) == Some(Some(doc))
NoDocument == Some(None)

\* serde_json::to_writer with the derived Serialize of TimeLog
to_writer(timelog) ==
    [tags |-> Tags_serialize(timelog.tags), intervals |-> timelog.intervals]

\* serde_json::from_reader with the derived Deserialize of TimeLog
from_reader(text) ==
    IF is_none(text) THEN Err("SerdeJson")
    ELSE LET t == Tags_deserialize(unwrap(text).tags) IN
         IF ~t.ok THEN Err("SerdeJson")
         ELSE Ok([tags |-> unwrap(t.val), intervals |-> unwrap(text).intervals])

\* Options::logfile_path: --file, the environment variable or the default
logfile_path(logfile) == IF is_some(logfile) THEN Ok(unwrap(logfile)) ELSE Err("CannotFindLogFile")

File_open(file, disk) ==
    IF disk.open = "denied" THEN Err("PermissionDenied")
    ELSE IF is_none(file) THEN Err("NotFound")
    ELSE Ok(unwrap(file))

\* Result<TimeLog, ConfigError>
current_timelog(logfile, file, disk) ==
    IF ~logfile_path(logfile).ok THEN logfile_path(logfile)
    ELSE LET f == File_open(file, disk) IN
         IF f.ok THEN from_reader(unwrap(f.val))
         ELSE IF f.err = "NotFound" THEN Ok(TimeLog_new)
         ELSE Err("CannotOpenLogFile")

\* returns << Result<(), ConfigError>, file afterwards >>: File::create
\* empties the file before the document is written
write_timelog(logfile, file, disk, timelog) ==
    IF ~logfile_path(logfile).ok THEN << logfile_path(logfile), file >>
    ELSE IF disk.create = "denied" THEN << Err("CannotOpenLogFile"), file >>
    ELSE IF disk.create = "full" THEN << Err("SerdeJson"), NoDocument >>
    ELSE << Unit, Document(to_writer(timelog)) >>

\* ------------------------------------------------------------ state machine
VARIABLES
    tags,        \* TimeLog.tags
    intervals,   \* TimeLog.intervals
    now,         \* what Utc::now() returns
    op,          \* the last call made on the log
    arg,         \* its argument (tag name or filter)
    result,      \* its return value
    before,      \* the log as it was when that call was made
    probe        \* a pure function applied to drawn inputs:
                 \* [fn, recv, arg, filter, other, out]

vars == << tags, intervals, now, op, arg, result, before, probe >>

log == [tags |-> tags, intervals |-> intervals]

TagNames == { "work", "play" }

\* instants the clock takes: a quarter-hour boundary, one tick (a fraction of a
\* second) past it, and seven minutes past it
ClockOffsets == { 0, 1, 7 * TicksPerMinute }
Instants == { q * Quarter + o : q \in 0..MaxQuarter, o \in ClockOffsets }

\* predicates handed to remove / retain
LogFilters ==
    { is_open, has_tag(0), ended_before(Quarter), Filter_and(has_tag(1), is_closed) }

NoProbe ==
    [fn |-> "none", recv |-> None, arg |-> 0, filter |-> << >>, other |-> << >>, out |-> None]

Init ==
    /\ tags = Tags_new
    /\ intervals = << >>
    /\ now = 0
    /\ op = "new"
    /\ arg = ""
    /\ result = Unit
    /\ before = TimeLog_new
    /\ probe = NoProbe

\* the clock advances between calls
Tick ==
    /\ \E t \in Instants : t > now /\ now' = t
    /\ op' = "tick"
    /\ arg' = ""
    /\ result' = Unit
    /\ before' = log
    /\ UNCHANGED << tags, intervals, probe >>

Open ==
    \E tag_name \in TagNames :
        LET r == TimeLog_open(log, tag_name, now) IN
        /\ Len(r[2].intervals) <= MaxIntervals
        /\ tags' = r[2].tags
        /\ intervals' = r[2].intervals
        /\ op' = "open"
        /\ arg' = tag_name
        /\ result' = r[1]
        /\ before' = log
        /\ UNCHANGED << now, probe >>

Close ==
    \E tag_name \in TagNames :
        LET r == TimeLog_close(log, tag_name, now) IN
        /\ tags' = r[2].tags
        /\ intervals' = r[2].intervals
        /\ op' = "close"
        /\ arg' = tag_name
        /\ result' = r[1]
        /\ before' = log
        /\ UNCHANGED << now, probe >>

Remove ==
    \E filter \in LogFilters :
        LET l == TimeLog_remove(log, filter, now) IN
        /\ tags' = l.tags
        /\ intervals' = l.intervals
        /\ op' = "remove"
        /\ arg' = filter
        /\ result' = Unit
        /\ before' = log
        /\ UNCHANGED << now, probe >>

Retain ==
    \E filter \in LogFilters :
        LET l == TimeLog_retain(log, filter, now) IN
        /\ tags' = l.tags
        /\ intervals' = l.intervals
        /\ op' = "retain"
        /\ arg' = filter
        /\ result' = Unit
        /\ before' = log
        /\ UNCHANGED << now, probe >>

GcTagNames ==
    LET r == TimeLog_gc_tag_names(log) IN
    /\ tags' = r[2].tags
    /\ intervals' = r[2].intervals
    /\ op' = "gc_tag_names"
    /\ arg' = ""
    /\ result' = r[1]
    /\ before' = log
    /\ UNCHANGED << now, probe >>

\* what a caller assigns through the references that iter_mut hands out: a
\* whole TaggedInterval, or an Interval through interval_mut
AssignedTagged ==
    { TaggedInterval_new(1, Interval_closed(2 * Quarter, 1)), TaggedInterval_open(0, 0) }
AssignedIntervals == { Interval_closed(0, 7 * TicksPerMinute) }

\* *int.interval_mut() = interval
TaggedInterval_interval_mut(ti, interval) == [ti EXCEPT !.interval = interval]

\* for (j, int) in log.iter_mut().enumerate() { if j == i { *int = value } }
TimeLog_iter_mut(l, i, value) == [l EXCEPT !.intervals[i] = value]

IterMut ==
    \E i \in 1..Len(intervals) :
        \E value \in AssignedTagged
                        \cup { TaggedInterval_interval_mut(intervals[i], int) :
                                   int \in AssignedIntervals } :
            /\ intervals' = TimeLog_iter_mut(log, i, value).intervals
            /\ op' = "iter_mut"
            /\ arg' = ""
            /\ result' = Unit
            /\ before' = log
            /\ UNCHANGED << tags, now, probe >>

\* the calls that open, close, remove and collect
NextOps == Tick \/ Open \/ Close \/ Remove \/ Retain \/ GcTagNames

\* a log used through these calls only
SpecOps == Init /\ [][NextOps]_vars

\* every way the interface of TimeLog changes a log
Next == NextOps \/ IterMut

Spec == Init /\ [][Next]_vars

\* ------------------------------------------- pure functions on drawn inputs
ProbeOffsets == { 0, 1, TicksPerSec, 7 * TicksPerMinute, Quarter - 1 }
ProbeTimes == { q * Quarter + o : q \in 0..MaxQuarter, o \in ProbeOffsets }
ProbeIntervals ==
    { Interval_open(s) : s \in ProbeTimes }
        \cup { Interval_closed(s, d) : s \in ProbeTimes, d \in ProbeTimes }
ProbeTagged == { TaggedInterval_new(t, i) : t \in 0..1, i \in ProbeIntervals }

ProbeFilters(t) ==
    { ended_after(t), ended_after_strict(t), longer_than(t), longer_than_strict(t),
      ended_before(t), ended_before_strict(t), started_before(t),
      started_before_strict(t), started_after(t) }

InitPure ==
    /\ tags = Tags_new
    /\ intervals = << >>
    /\ now = 7 * TicksPerMinute
    /\ op = "new"
    /\ arg = ""
    /\ result = Unit
    /\ before = TimeLog_new
    /\ probe \in { [fn |-> "input", recv |-> i, arg |-> t, filter |-> << >>,
                     other |-> << >>, out |-> None] :
                      i \in ProbeTagged, t \in ProbeTimes }

\* Interval::close and TaggedInterval::close of the receiver at instant arg
ApplyClose ==
    /\ probe' = [probe EXCEPT !.fn = "close", !.filter = << >>,
                              !.out = [interval |-> Interval_close(probe.recv.interval, probe.arg),
                                       tagged |-> TaggedInterval_close(probe.recv, probe.arg)]]
    /\ UNCHANGED << tags, intervals, now, op, arg, result, before >>

\* round_to_quarter_hours of the receiver
ApplyRound ==
    /\ probe' = [probe EXCEPT !.fn = "round_to_quarter_hours", !.filter = << >>,
                              !.out = TaggedInterval_round_to_quarter_hours(probe.recv)]
    /\ UNCHANGED << tags, intervals, now, op, arg, result, before >>

\* a filter built from arg, evaluated on the receiver
ApplyFilter ==
    /\ \E f \in ProbeFilters(probe.arg) :
           probe' = [probe EXCEPT !.fn = "eval", !.filter = f,
                                  !.out = Filter_eval(f, probe.recv, now)]
    /\ UNCHANGED << tags, intervals, now, op, arg, result, before >>

\* floor_time and ceil_time of the instant arg
ApplyQuarterHours ==
    /\ probe' = [probe EXCEPT !.fn = "ceil_time", !.filter = << >>,
                              !.out = [floor |-> floor_time(probe.arg),
                                       ceil |-> ceil_time(probe.arg)]]
    /\ UNCHANGED << tags, intervals, now, op, arg, result, before >>

\* floor_duration and ceil_duration of arg taken as a duration, converted back
ApplyRestrictedDuration ==
    /\ probe' = [probe EXCEPT
                    !.fn = "ceil_duration", !.filter = << >>,
                    !.out = [floor |-> Duration_from(RestrictedDuration_floor_duration(probe.arg)),
                             ceil |-> Duration_from(RestrictedDuration_ceil_duration(probe.arg))]]
    /\ UNCHANGED << tags, intervals, now, op, arg, result, before >>

NextPure ==
    ApplyClose \/ ApplyRound \/ ApplyFilter \/ ApplyQuarterHours \/ ApplyRestrictedDuration

SpecPure == InitPure /\ [][NextPure]_vars

\* ------------------------------------------ filters built from drawn inputs
FilterTimes == { q * Quarter : q \in 0..MaxQuarter }
FilterIntervals ==
    { TaggedInterval_new(t, i) :
        t \in 0..1,
        i \in { Interval_open(Quarter), Interval_closed(0, Quarter),
                Interval_closed(2 * Quarter, 0) } }
FilterAtoms(t) == { filter_true, filter_false, has_tag(0), is_closed, started_before(t) }
FilterVarying(t) == FilterAtoms(t) \ { filter_true, filter_false }
FilterPool(t) ==
    FilterAtoms(t)
        \cup { Filter_inverted(a) : a \in FilterAtoms(t) }
        \cup { Filter_and(a, b) : a, b \in FilterVarying(t) }
        \cup { Filter_or(a, b) : a, b \in FilterVarying(t) }

FilterInputs ==
    UNION { FilterIntervals \X {t} \X FilterPool(t) \X FilterPool(t) : t \in FilterTimes }

\* the log the criteria are resolved against: "work" is tag 0, "play" is tag 1
\* and "rest" is not registered
CriteriaTags ==
    Tags_get_id_or_insert(Tags_get_id_or_insert(Tags_new, "work")[2], "play")[2]
CriteriaTimes == { None, Some(Quarter), Some(Day + Quarter), Some(0 - Quarter) }
CriteriaInputs ==
    [before : CriteriaTimes, after : CriteriaTimes, today : BOOLEAN,
     open : BOOLEAN, closed : BOOLEAN,
     tags : { << >>, << "rest" >>, << "rest", "work" >>, << "work", "play" >> }]

\* what local zones are ahead of UTC: New York in winter, UTC, Kiritimati
ZoneOffsets == { 0 - 5 * TicksPerHour, 0, 14 * TicksPerHour }

\* a zone with one change of offset
OneTransition(first, at, offset) ==
    [first |-> first, transitions |-> << [at |-> at, offset |-> offset] >>]

\* The zones of a run, clock 0 being 00:00 UTC of the day after the change:
\* the fixed ones; New York on the day summer time ended (at 02:00 local: the
\* midnight was 4 h behind UTC, the evening is 5 h behind); Havana on the day
\* summer time ended (at 01:00 local, put back to 00:00: the midnight
\* occurred twice); Guatemala on the day summer time began (at 00:00 local,
\* put forward to 01:00).
NewYork == OneTransition(0 - 4 * TicksPerHour, 0 - 18 * TicksPerHour, 0 - 5 * TicksPerHour)
Havana == OneTransition(0 - 4 * TicksPerHour, 0 - 19 * TicksPerHour, 0 - 5 * TicksPerHour)
Guatemala == OneTransition(0 - 6 * TicksPerHour, 0 - 18 * TicksPerHour, 0 - 5 * TicksPerHour)
Zones ==
    { FixedZone(offset) : offset \in ZoneOffsets } \cup { NewYork, Havana, Guatemala }

\* the criteria of a command line without options
NoCriteria ==
    [before |-> None, after |-> None, today |-> FALSE, open |-> FALSE,
     closed |-> FALSE, tags |-> << >>]


InitFilter ==
    /\ tags = CriteriaTags
    /\ now = 7 * TicksPerMinute
    /\ op = "new"
    /\ arg = ""
    /\ result = Unit
    /\ before = TimeLog_new
    /\ probe \in { [fn |-> "input", recv |-> x[1], arg |-> x[2], filter |-> x[3],
                     other |-> x[4], out |-> None] : x \in FilterInputs }
                  \cup { [fn |-> "criteria", recv |-> x[1],
                          arg |-> [info |-> x[2], zone |-> x[3]], filter |-> << >>,
                          other |-> << >>, out |-> None] :
                           x \in FilterIntervals \X CriteriaInputs \X Zones }
    /\ intervals = << probe.recv >>

\* what a built filter is, folds to and evaluates to on the receiver
Built(f) ==
    [built |-> f, const |-> Filter_eval_const(f), value |-> Filter_eval(f, probe.recv, now)]

ApplyAnd ==
    /\ probe.fn = "input"
    /\ probe' = [probe EXCEPT !.fn = "and", !.out = Built(Filter_and(probe.filter, probe.other))]
    /\ UNCHANGED << tags, intervals, now, op, arg, result, before >>

ApplyOr ==
    /\ probe.fn = "input"
    /\ probe' = [probe EXCEPT !.fn = "or", !.out = Built(Filter_or(probe.filter, probe.other))]
    /\ UNCHANGED << tags, intervals, now, op, arg, result, before >>

ApplyInverted ==
    /\ probe.fn = "input"
    /\ probe' = [probe EXCEPT !.fn = "inverted", !.out = [twice |-> Filter_inverted(Filter_inverted(probe.filter))]
                                                 @@ Built(Filter_inverted(probe.filter))]
    /\ UNCHANGED << tags, intervals, now, op, arg, result, before >>

\* the collections handed to and_all / or_all
FilterLists ==
    { << >>, << probe.filter >>, << probe.filter, probe.other >>,
      << probe.other, probe.filter, probe.other >> }

ApplyAndAll ==
    /\ probe.fn = "input"
    /\ \E list \in FilterLists :
           probe' = [probe EXCEPT !.fn = "and_all",
                                  !.out = [list |-> list] @@ Built(and_all(list))]
    /\ UNCHANGED << tags, intervals, now, op, arg, result, before >>

ApplyOrAll ==
    /\ probe.fn = "input"
    /\ \E list \in FilterLists :
           probe' = [probe EXCEPT !.fn = "or_all",
                                  !.out = [list |-> list] @@ Built(or_all(list))]
    /\ UNCHANGED << tags, intervals, now, op, arg, result, before >>

\* TagsInRange::filter on the drawn criteria, and what purge says of the result
ApplyCriteria ==
    /\ probe.fn = "criteria"
    /\ LET info == probe.arg.info
           r == TagsInRange_filter(info, log, todaytime_of(now, probe.arg.zone)) IN
       probe' = [probe EXCEPT !.fn = "TagsInRange::filter",
                              !.out = IF r.ok
                                      THEN [info |-> info, result |-> r,
                                            message |-> purge_message(unwrap(r.val), log, now)]
                                           @@ Built(unwrap(r.val))
                                      ELSE [info |-> info, result |-> r]]
    /\ UNCHANGED << tags, intervals, now, op, arg, result, before >>

NextFilter ==
    ApplyAnd \/ ApplyOr \/ ApplyInverted \/ ApplyAndAll \/ ApplyOrAll \/ ApplyCriteria

SpecFilter == InitFilter /\ [][NextFilter]_vars

\* ------------------------------------------------- the tag registry alone
TagPool == {"work", "play", "rest", "home"}

Insert ==
    \E name \in TagPool :
        LET r == Tags_insert(tags, name) IN
        /\ tags' = r[2]
        /\ op' = "insert"
        /\ arg' = name
        /\ result' = IF r[1].ok THEN Ok(r[1].id) ELSE Err(r[1].err)
        /\ before' = log
        /\ UNCHANGED << intervals, now, probe >>

GetIdOrInsert ==
    \E name \in TagPool :
        LET r == Tags_get_id_or_insert(tags, name) IN
        /\ tags' = r[2]
        /\ op' = "get_id_or_insert"
        /\ arg' = name
        /\ result' = Ok(r[1])
        /\ before' = log
        /\ UNCHANGED << intervals, now, probe >>

NextTags == Insert \/ GetIdOrInsert

SpecTags == Init /\ [][NextTags]_vars

\* ------------------------------------------------------ one program run
\* main.rs: the arguments are parsed, the log is loaded, the command is
\* executed, the log is written if the command returned Changed, and the
\* process exits.  Here probe.recv is the file at the logfile path, probe.arg
\* the environment of the process (what stdin holds, whether stdout and stderr
\* take writes, the local zone, the logfile path, the state of the disk),
\* probe.out counts the loads, commands and writes of the run and keeps the
\* file as it was and the exit status; arg is the command and op the step
\* the run has just made.
RECURSIVE Snapshot(_)
Snapshot(entries) ==
    IF entries = << >> THEN TimeLog_new
    ELSE LET e == entries[Len(entries)] IN
         TimeLog_insert_unchecked(Snapshot(SubSeq(entries, 1, Len(entries) - 1)), e[1], e[2])

\* logfiles left by earlier runs, some of them by runs at a later clock
\* reading or on a full disk, and one whose tag list was edited
RunFiles ==
    { None,
      NoDocument,
      Document([tags |-> << "work", "work" >>, intervals |-> << >>]),
      Document(to_writer(TimeLog_new)),
      Document(to_writer(Snapshot(<< << "work", Interval_open(0) >> >>))),
      Document(to_writer(Snapshot(<< << "work", Interval_open(MaxQuarter * Quarter) >> >>))),
      Document(to_writer(Snapshot(<< << "work", Interval_closed(0, Quarter) >>,
                                     << "default", Interval_open(Quarter) >> >>))),
      Document(to_writer(Snapshot(<< << "play", Interval_closed(0, Quarter) >>,
                                     << "work", Interval_closed(0, 2 * Quarter) >> >>))) }

RunInstants == { 7 * TicksPerMinute, Quarter + 1, MaxQuarter * Quarter + TicksPerMinute }

RunCriteria ==
    { NoCriteria,
      [NoCriteria EXCEPT !.open = TRUE],
      [NoCriteria EXCEPT !.open = TRUE, !.closed = TRUE],
      [NoCriteria EXCEPT !.tags = << "work" >>],
      [NoCriteria EXCEPT !.tags = << "rest" >>, !.closed = TRUE],
      [NoCriteria EXCEPT !.before = Some(0 - Quarter)],
      [NoCriteria EXCEPT !.today = TRUE] }

RunTags == { None, Some("work"), Some("rest") }

Commands ==
    { [name |-> "open", tag |-> t, create |-> c] : t \in RunTags, c \in BOOLEAN }
        \cup { [name |-> "close", tag |-> t] : t \in RunTags }
        \cup { [name |-> n, info |-> i] : n \in {"list", "purge", "aggregate"}, i \in RunCriteria }
        \cup { [name |-> "status", tags |-> t] : t \in { << >>, << "work" >>, << "rest", "work" >> } }
        \cup { [name |-> "tags"] }

\* what is typed at the prompt: nothing (end of input), y, N, two lines of
\* which the first is no answer, and bytes that are not UTF-8
RunStdin ==
    { << >>,
      << Ok(Line_y) >>,
      << Ok(Line_N) >>,
      << Ok(Line_ok), Ok(Line_Yes) >>,
      << Ok(Line_question), Ok(Line_no) >>,
      << Err("InvalidData") >> }

\* the environments of a run
RunEnvs ==
    [stdin : RunStdin, stdout : BOOLEAN, stderr : BOOLEAN, zone : Zones,
     logfile : { None, Some("timelog") },
     disk : [open : { "ok", "denied" }, create : { "ok", "denied", "full" }]]

env == probe.arg

run_outputs == StdOutputs_default(env.stdout, env.stderr)

\* Options::from_args() has run: the command is known, nothing is loaded yet
InitRun ==
    /\ tags = Tags_new
    /\ intervals = << >>
    /\ now \in RunInstants
    /\ op = "from_args"
    /\ arg \in Commands
    /\ result = Unit
    /\ before = TimeLog_new
    /\ probe \in { [fn |-> "run", recv |-> file, arg |-> e, filter |-> << >>,
                     other |-> << >>,
                     out |-> [loads |-> 0, commands |-> 0, writes |-> 0, file |-> file,
                              status |-> None]] :
                      file \in RunFiles, e \in RunEnvs }

\* config::current_timelog(&options)?
Load ==
    /\ op = "from_args"
    /\ LET r == current_timelog(env.logfile, probe.recv, env.disk) IN
       /\ tags' = IF r.ok THEN unwrap(r.val).tags ELSE tags
       /\ intervals' = IF r.ok THEN unwrap(r.val).intervals ELSE intervals
       /\ result' = IF r.ok THEN Unit ELSE Err(r.err)
    /\ op' = "current_timelog"
    /\ probe' = [probe EXCEPT !.out.loads = @ + 1]
    /\ UNCHANGED << now, arg, before >>

\* the common part of the handlers: r is << result, log afterwards >>
Executed(r) ==
    /\ op = "current_timelog"
    /\ result.ok
    /\ tags' = r[2].tags
    /\ intervals' = r[2].intervals
    /\ op' = arg.name
    /\ result' = r[1]
    /\ before' = log
    /\ probe' = [probe EXCEPT !.out.commands = @ + 1]
    /\ UNCHANGED << now, arg >>

ExecOpen ==
    /\ arg.name = "open"
    /\ Executed(CommandContext_open(log, tag_or_default(arg.tag), arg.create, env.stdin,
                                    run_outputs, now))

ExecClose ==
    /\ arg.name = "close"
    /\ Executed(CommandContext_close(log, tag_or_default(arg.tag), run_outputs, now))

ExecList ==
    /\ arg.name = "list"
    /\ Executed(CommandContext_list(log, arg.info, run_outputs, now, env.zone))

ExecPurge ==
    /\ arg.name = "purge"
    /\ Executed(CommandContext_purge(log, arg.info, env.stdin, run_outputs, now, env.zone))

ExecAggregate ==
    /\ arg.name = "aggregate"
    /\ Executed(CommandContext_aggregate(log, arg.info, run_outputs, now, env.zone))

ExecStatus ==
    /\ arg.name = "status"
    /\ Executed(CommandContext_status(log, arg.tags, run_outputs, now))

ExecTags ==
    /\ arg.name = "tags"
    /\ Executed(CommandContext_tags(log, run_outputs))

CommandNames == { "open", "close", "list", "purge", "aggregate", "status", "tags" }

\* main(): the exit status of a run that ended with r.  An error is printed
\* with eprintln!, which panics when stderr does not take the write, before
\* process::exit(1); a panic ends the process with 101.
exit_status(r, stderr) ==
    IF r = Panic THEN 101
    ELSE IF r.ok THEN 0
    ELSE IF stderr THEN 1
    ELSE 101

\* execute(..)?.is_changed() holds: config::write_timelog(&options, &timelog)?
WriteLog ==
    /\ op \in CommandNames
    /\ result = Changed
    /\ op' = "write_timelog"
    /\ LET w == write_timelog(env.logfile, probe.recv, env.disk, log) IN
       probe' = [probe EXCEPT !.recv = w[2], !.out.writes = @ + 1,
                              !.out.status = Some(exit_status(w[1], env.stderr))]
    /\ UNCHANGED << tags, intervals, now, arg, result, before >>

\* the load failed, or the command returned Unchanged or an error or
\* aborted: the run ends without a write
Exit ==
    /\ \/ op = "current_timelog" /\ ~result.ok
       \/ op \in CommandNames /\ result # Changed
    /\ op' = "exit"
    /\ probe' = [probe EXCEPT !.out.status = Some(exit_status(result, env.stderr))]
    /\ UNCHANGED << tags, intervals, now, arg, result, before >>

NextRun ==
    \/ Load
    \/ ExecOpen \/ ExecClose \/ ExecList \/ ExecPurge \/ ExecAggregate \/ ExecStatus
    \/ ExecTags
    \/ WriteLog
    \/ Exit

SpecRun == InitRun /\ [][NextRun]_vars

\* ------------------------------------------------------------------- claims
\* Quarter-hour boundaries as arithmetic, independent of QuarterHour.
QuarterFloor(t) == (t \div Quarter) * Quarter
QuarterCeiling(t) == ((t + Quarter - 1) \div Quarter) * Quarter

\* positions of the intervals of log l that carry the tag named name
TagIdx(l, name) ==
    IF name \in DOMAIN l.tags.tag_ids
    THEN { i \in 1..Len(l.intervals) : l.intervals[i].tag = l.tags.tag_ids[name] }
    ELSE {}
OpenIdx(l, name) == { i \in TagIdx(l, name) : l.intervals[i].interval.duration = None }
ClosedIdx(l, name) == TagIdx(l, name) \ OpenIdx(l, name)
EndOf(ti) == ti.interval.start + ti.interval.duration[1]
RecentIdx(l, name, t) ==
    { i \in ClosedIdx(l, name) : EndOf(l.intervals[i]) >= QuarterFloor(t) }
OpenAt(tag, start) == [tag |-> tag, interval |-> [start |-> start, duration |-> None]]
ClosedAt(tag, start, end) ==
    [tag |-> tag, interval |-> [start |-> start, duration |-> << end - start >>]]

\* C1: the log never holds two open intervals with the same tag.
C1_OneOpenPerTag ==
    \A i, j \in 1..Len(intervals) :
        ( /\ intervals[i].tag = intervals[j].tag
          /\ intervals[i].interval.duration = None
          /\ intervals[j].interval.duration = None ) => i = j

\* an open call has just added an open interval next to a closed one of its tag
C1_Witness ==
    /\ op = "open" /\ result.ok
    /\ Len(intervals) = Len(before.intervals) + 1
    /\ OpenIdx(log, arg) # {} /\ ClosedIdx(log, arg) # {}

\* C2: open(tag) on a tag that has an open interval returns TagAlreadyOpen and
\* leaves the interval sequence and the tag registry as they were.
C2_OpenTwiceFails ==
    (op = "open" /\ OpenIdx(before, arg) # {}) =>
        /\ result = Err("TagAlreadyOpen")
        /\ intervals = before.intervals
        /\ tags = before.tags

C2_Witness ==
    /\ op = "open" /\ OpenIdx(before, arg) # {}
    /\ result.err = "TagAlreadyOpen"
    /\ Len(intervals) = 2

\* C3: open(tag) with no open interval of the tag but a closed one ending at or
\* after the quarter-hour floor of now reopens that interval in place: same
\* position, same tag, same start, no duration; nothing else changes.
C3_ReopenRecent ==
    (op = "open" /\ OpenIdx(before, arg) = {} /\ RecentIdx(before, arg, now) # {}) =>
        \A i \in RecentIdx(before, arg, now) :
            LET old == before.intervals[i]
                new == OpenAt(old.tag, old.interval.start)
            IN /\ intervals = [before.intervals EXCEPT ![i] = new]
               /\ result = Ok(new)

\* the reopened interval started in an earlier quarter hour than now's
C3_Witness ==
    /\ op = "open" /\ OpenIdx(before, arg) = {} /\ RecentIdx(before, arg, now) # {}
    /\ result.ok
    /\ result.val[1].interval.start < QuarterFloor(now)
    /\ Len(intervals) = Len(before.intervals)

\* C4: open(tag) with neither an open nor a recently closed interval of the tag
\* appends one open interval, tagged with that name and starting at the
\* quarter-hour floor of now, and leaves the earlier intervals as they were.
C4_AppendNew ==
    (op = "open" /\ OpenIdx(before, arg) = {} /\ RecentIdx(before, arg, now) = {}) =>
        /\ arg \in DOMAIN tags.tag_ids
        /\ intervals = Append(before.intervals, OpenAt(tags.tag_ids[arg], QuarterFloor(now)))
        /\ Tags_get_name(tags, intervals[Len(intervals)].tag) = Some(arg)
        /\ \A i \in 1..Len(before.intervals) :
               Tags_get_name(tags, intervals[i].tag)
                   = Tags_get_name(before.tags, before.intervals[i].tag)

\* a new interval is appended behind an older closed interval of the same tag
C4_Witness ==
    /\ op = "open" /\ OpenIdx(before, arg) = {} /\ RecentIdx(before, arg, now) = {}
    /\ ClosedIdx(before, arg) # {}
    /\ Len(intervals) = Len(before.intervals) + 1
    /\ now # QuarterFloor(now)

\* C5: close(tag) on a tag with an open interval stores, and returns, that
\* interval closed with its start unchanged and its end at the quarter-hour
\* ceiling of now; the other intervals and the registry are unchanged.
C5_CloseAtCeiling ==
    (op = "close" /\ OpenIdx(before, arg) # {}) =>
        \A i \in OpenIdx(before, arg) :
            LET old == before.intervals[i]
                new == ClosedAt(old.tag, old.interval.start, QuarterCeiling(now))
            IN /\ intervals = [before.intervals EXCEPT ![i] = new]
               /\ result = Ok(new)
               /\ tags = before.tags

\* C6: close(tag) on a tag without an open interval, registered or not, returns
\* TagNotOpen and changes neither the intervals nor the registry.
C6_CloseNotOpen ==
    (op = "close" /\ OpenIdx(before, arg) = {}) =>
        /\ result = Err("TagNotOpen")
        /\ intervals = before.intervals
        /\ tags = before.tags

\* the tag is registered and all its intervals are closed
C6_Witness ==
    /\ op = "close" /\ OpenIdx(before, arg) = {}
    /\ ClosedIdx(before, arg) # {}
    /\ result.err = "TagNotOpen"

\* the tag name is not registered
C6_WitnessUnregistered ==
    /\ op = "close" /\ arg \notin DOMAIN before.tags.tag_ids
    /\ before.intervals # << >>
    /\ result.err = "TagNotOpen"

\* C7: Interval.close(end) and TaggedInterval.close(end) fail (None) when the
\* interval is already closed or end is before start, and otherwise give a
\* closed interval with the same start (and tag) and duration end - start.
C7_CloseChecked ==
    (probe.fn = "close") =>
        LET r == probe.recv.interval
            end == probe.arg
        IN IF r.duration # None \/ end < r.start
           THEN probe.out.interval = None /\ probe.out.tagged = None
           ELSE /\ probe.out.interval = << [start |-> r.start, duration |-> << end - r.start >>] >>
                /\ probe.out.tagged = << ClosedAt(probe.recv.tag, r.start, end) >>

\* an open interval closed at an instant before its start
C7_Witness ==
    /\ probe.fn = "close"
    /\ probe.recv.interval.duration = None
    /\ probe.arg < probe.recv.interval.start
    /\ probe.out.interval = None

\* C8: rounding an already rounded interval to quarter hours changes nothing.
C8_RoundIdempotent ==
    (probe.fn = "round_to_quarter_hours") =>
        /\ TaggedInterval_round_to_quarter_hours(probe.out) = probe.out
        /\ Interval_round_to_quarter_hours(probe.out.interval) = probe.out.interval

\* a closed interval whose start and end were both moved by the first rounding
C8_Witness ==
    /\ probe.fn = "round_to_quarter_hours"
    /\ probe.recv.interval.duration # None
    /\ probe.out.interval.start # probe.recv.interval.start
    /\ EndOf(probe.out) # EndOf(probe.recv)

IsClosedNode == Node("IsClosed", 0)
NotNode == Node("Not", 0)
AndNode == Node("And", 0)

\* C9 as stated: on a closed interval ending exactly at t, ended_after(t) is
\* false and ended_after_strict(t) is true; ended_after is built on the
\* non-strict EndedBefore and ended_after_strict on EndedBeforeStrict.
C9_AsStated ==
    ( /\ probe.fn = "eval"
      /\ probe.filter \in { ended_after(probe.arg), ended_after_strict(probe.arg) }
      /\ probe.recv.interval.duration # None
      /\ EndOf(probe.recv) = probe.arg ) =>
        /\ ended_after(probe.arg)
              = << IsClosedNode, Node("EndedBefore", probe.arg), NotNode, AndNode >>
        /\ ended_after_strict(probe.arg)
              = << IsClosedNode, Node("EndedBeforeStrict", probe.arg), NotNode, AndNode >>
        /\ (probe.filter = ended_after(probe.arg) => probe.out = FALSE)
        /\ (probe.filter = ended_after_strict(probe.arg) => probe.out = TRUE)

\* C9 amended: on a closed interval ending exactly at t, ended_after(t) is true
\* and ended_after_strict(t) is false; ended_after is IsClosed AND NOT
\* EndedBeforeStrict, ended_after_strict is IsClosed AND NOT EndedBefore.
C9_EndedAfterBoundary ==
    (probe.fn = "eval") =>
        /\ ended_after(probe.arg)
              = << IsClosedNode, Node("EndedBeforeStrict", probe.arg), NotNode, AndNode >>
        /\ ended_after_strict(probe.arg)
              = << IsClosedNode, Node("EndedBefore", probe.arg), NotNode, AndNode >>
        /\ (probe.recv.interval.duration # None /\ EndOf(probe.recv) = probe.arg) =>
              /\ (probe.filter = ended_after(probe.arg) => probe.out = TRUE)
              /\ (probe.filter = ended_after_strict(probe.arg) => probe.out = FALSE)

\* ended_after(t) evaluated on a closed interval of positive length ending at t
C9_Witness ==
    /\ probe.fn = "eval"
    /\ probe.filter = ended_after(probe.arg)
    /\ probe.recv.interval.duration # None
    /\ probe.recv.interval.duration[1] > 0
    /\ EndOf(probe.recv) = probe.arg
    /\ probe.out = TRUE

\* C10 as stated: longer_than(d) negates the non-strict ShorterThan(d) and
\* longer_than_strict(d) the strict one, so on a closed interval of duration
\* exactly d longer_than(d) is false and longer_than_strict(d) is true.
C10_AsStated ==
    ( /\ probe.fn = "eval"
      /\ probe.filter \in { longer_than(probe.arg), longer_than_strict(probe.arg) }
      /\ probe.recv.interval.duration = << probe.arg >> ) =>
        /\ longer_than(probe.arg) = << Node("ShorterThan", probe.arg), NotNode >>
        /\ longer_than_strict(probe.arg) = << Node("ShorterThanStrict", probe.arg), NotNode >>
        /\ (probe.filter = longer_than(probe.arg) => probe.out = FALSE)
        /\ (probe.filter = longer_than_strict(probe.arg) => probe.out = TRUE)

\* C10 amended: longer_than(d) negates the strict ShorterThanStrict(d) and
\* longer_than_strict(d) the non-strict ShorterThan(d), so on a closed interval
\* of duration exactly d longer_than(d) is true and longer_than_strict(d) false.
C10_LongerThanBoundary ==
    (probe.fn = "eval") =>
        /\ longer_than(probe.arg) = << Node("ShorterThanStrict", probe.arg), NotNode >>
        /\ longer_than_strict(probe.arg) = << Node("ShorterThan", probe.arg), NotNode >>
        /\ (probe.recv.interval.duration = << probe.arg >>) =>
              /\ (probe.filter = longer_than(probe.arg) => probe.out = TRUE)
              /\ (probe.filter = longer_than_strict(probe.arg) => probe.out = FALSE)

\* longer_than_strict(d) evaluated on a closed interval lasting exactly d > 0
C10_Witness ==
    /\ probe.fn = "eval"
    /\ probe.filter = longer_than_strict(probe.arg)
    /\ probe.recv.interval.duration = << probe.arg >>
    /\ probe.arg > 0
    /\ probe.out = FALSE

\* C11: ended_before(t) holds iff the interval is closed and end <= t,
\* ended_before_strict(t) iff closed and end < t (both fail on open intervals),
\* started_before(t) iff start <= t, started_before_strict(t) iff start < t,
\* started_after(t) iff start >= t.
C11_BeforeBoundaries ==
    (probe.fn = "eval") =>
        LET start == probe.recv.interval.start
            closed == probe.recv.interval.duration # None
            t == probe.arg
        IN /\ (probe.filter = ended_before(t) =>
                  probe.out = (closed /\ EndOf(probe.recv) <= t))
           /\ (probe.filter = ended_before_strict(t) =>
                  probe.out = (closed /\ EndOf(probe.recv) < t))
           /\ (probe.filter = started_before(t) => probe.out = (start <= t))
           /\ (probe.filter = started_before_strict(t) => probe.out = (start < t))
           /\ (probe.filter = started_after(t) => probe.out = (start >= t))

\* started_after(t) evaluated on an interval that starts exactly at t
C11_Witness ==
    /\ probe.fn = "eval"
    /\ probe.filter = started_after(probe.arg)
    /\ probe.recv.interval.start = probe.arg
    /\ probe.out = TRUE

\* ended_before_strict(t) on a closed interval ending exactly at t
C11_WitnessEnd ==
    /\ probe.fn = "eval"
    /\ probe.filter = ended_before_strict(probe.arg)
    /\ probe.recv.interval.duration # None
    /\ EndOf(probe.recv) = probe.arg
    /\ probe.out = FALSE

\* -------------------------------------------------- the filter combinators
EvalOn(f) == Filter_eval(f, probe.recv, now)
Combined == probe.fn \in {"and", "or", "inverted", "and_all", "or_all"}
CriteriaOk == probe.fn = "TagsInRange::filter" /\ probe.out.result.ok

\* C12: evaluation is a homomorphism over the combinators, also when the
\* construction-time simplification fires: eval(f1.and(f2), i) = eval(f1, i)
\* AND eval(f2, i), eval(f1.or(f2), i) = eval(f1, i) OR eval(f2, i), and
\* eval(f1.inverted(), i) = NOT eval(f1, i).
C12_EvalHomomorphism ==
    /\ (probe.fn = "and" => probe.out.value = (EvalOn(probe.filter) /\ EvalOn(probe.other)))
    /\ (probe.fn = "or" => probe.out.value = (EvalOn(probe.filter) \/ EvalOn(probe.other)))
    /\ (probe.fn = "inverted" => probe.out.value = ~EvalOn(probe.filter))

\* a False receiver combined by and with a filter that matches the interval
C12_Witness ==
    /\ probe.fn = "and"
    /\ probe.filter = filter_false
    /\ probe.other = is_closed
    /\ EvalOn(probe.other)
    /\ probe.out.value = FALSE

\* two non-constant operands combined by or, only the second one matching
C12_WitnessOr ==
    /\ probe.fn = "or"
    /\ Len(probe.out.built) = Len(probe.filter) + Len(probe.other) + 1
    /\ ~EvalOn(probe.filter)
    /\ EvalOn(probe.other)
    /\ probe.out.value = TRUE

\* C13: eval_const is sound: a filter that folds to True matches every
\* interval and a filter that folds to False matches none.
C13_EvalConstSound ==
    /\ (probe.fn = "input" =>
            /\ (Filter_eval_const(probe.filter) = "True" => EvalOn(probe.filter))
            /\ (Filter_eval_const(probe.filter) = "False" => ~EvalOn(probe.filter)))
    /\ (Combined \/ CriteriaOk =>
            /\ (probe.out.const = "True" => probe.out.value = TRUE)
            /\ (probe.out.const = "False" => probe.out.value = FALSE))

\* a combination that folds to True, built from a non-constant operand
C13_Witness ==
    /\ probe.fn = "or"
    /\ probe.filter = is_open
    /\ probe.out.const = "True"
    /\ probe.out.value = TRUE

\* a negated predicate that matches the interval and does not fold
C13_WitnessNonConst ==
    /\ probe.fn = "inverted"
    /\ probe.filter = is_closed
    /\ probe.out.const = "NonConst"
    /\ probe.out.value = TRUE

\* C14: and_all of an empty collection is the literal True filter and matches
\* every interval, or_all of an empty collection is the literal False filter
\* and matches none; on a non-empty collection and_all evaluates to the
\* conjunction and or_all to the disjunction of the members' evaluations.
C14_AllFolds ==
    /\ (probe.fn = "and_all" =>
            /\ (probe.out.list = << >> => probe.out.built = filter_true)
            /\ probe.out.value = (\A k \in 1..Len(probe.out.list) : EvalOn(probe.out.list[k])))
    /\ (probe.fn = "or_all" =>
            /\ (probe.out.list = << >> => probe.out.built = filter_false)
            /\ probe.out.value = (\E k \in 1..Len(probe.out.list) : EvalOn(probe.out.list[k])))

\* and_all of nothing matches the interval
C14_Witness ==
    /\ probe.fn = "and_all"
    /\ probe.out.list = << >>
    /\ probe.out.value = TRUE

\* or_all of three members of which only the middle one matches
C14_WitnessMembers ==
    /\ probe.fn = "or_all"
    /\ Len(probe.out.list) = 3
    /\ ~EvalOn(probe.out.list[1])
    /\ EvalOn(probe.out.list[2])
    /\ probe.out.value = TRUE

\* C15: with a literal True or False operand, and/or return exactly the other
\* operand (X AND True, X OR False) or exactly the constant (X AND False,
\* X OR True); inverted swaps the literals; on any other filter inverted
\* appends one Not node, so inverting twice does not give the original back.
C15_Simplification ==
    /\ (probe.fn = "and" =>
            /\ (probe.filter = filter_true => probe.out.built = probe.other)
            /\ (probe.other = filter_true => probe.out.built = probe.filter)
            /\ (probe.filter = filter_false \/ probe.other = filter_false
                    => probe.out.built = filter_false))
    /\ (probe.fn = "or" =>
            /\ (probe.filter = filter_false => probe.out.built = probe.other)
            /\ (probe.other = filter_false => probe.out.built = probe.filter)
            /\ (probe.filter = filter_true \/ probe.other = filter_true
                    => probe.out.built = filter_true))
    /\ (probe.fn = "inverted" =>
            /\ (probe.filter = filter_true => probe.out.built = filter_false)
            /\ (probe.filter = filter_false => probe.out.built = filter_true)
            /\ (probe.filter \notin {filter_true, filter_false} =>
                    /\ probe.out.built = Append(probe.filter, NotNode)
                    /\ probe.out.twice = Append(Append(probe.filter, NotNode), NotNode)
                    /\ probe.out.twice # probe.filter))

\* a non-constant filter inverted twice
C15_Witness ==
    /\ probe.fn = "inverted"
    /\ probe.filter = is_closed
    /\ probe.out.twice = << IsClosedNode, NotNode, NotNode >>

\* a composite operand that and returns as it is
C15_WitnessAnd ==
    /\ probe.fn = "and"
    /\ probe.other = filter_true
    /\ Len(probe.filter) > 1
    /\ probe.out.built = probe.filter

\* C16: evals_true() holds exactly for the literal True filter and
\* evals_false() exactly for the literal False filter; the filter that
\* TagsInRange builds from no tags, no time bounds and no open/closed flag is
\* the literal True filter, for which, and for no other, purge prints the ALL
\* INTERVALS warning and not the listing.  With these criteria the
\* construction returns no error: it returns that filter in every zone in
\* which it returns at all.
C16_EvalsTrueIsLiteral ==
    /\ (probe.fn = "input" =>
            /\ (Filter_evals_true(probe.filter) <=> probe.filter = filter_true)
            /\ (Filter_evals_false(probe.filter) <=> probe.filter = filter_false))
    /\ (Combined \/ CriteriaOk =>
            /\ (Filter_evals_true(probe.out.built) <=> probe.out.built = filter_true)
            /\ (Filter_evals_false(probe.out.built) <=> probe.out.built = filter_false))
    /\ (probe.fn = "TagsInRange::filter" /\ probe.out.info = NoCriteria
                                         /\ probe.out.result # Panic =>
            /\ probe.out.result = Ok(filter_true)
            /\ probe.out.built = filter_true
            /\ probe.out.message = "Purging ALL INTERVALS!")
    /\ (CriteriaOk =>
            (probe.out.message = "Purging ALL INTERVALS!" <=> probe.out.built = filter_true))

\* the criteria that select nothing in particular, on the day summer time
\* began at midnight
C16_Witness ==
    /\ CriteriaOk
    /\ probe.arg.zone = Guatemala
    /\ probe.out.info = NoCriteria
    /\ probe.out.built = filter_true
    /\ probe.out.message = "Purging ALL INTERVALS!"

\* the same criteria in a zone without transitions
C16_WitnessFixed ==
    /\ CriteriaOk
    /\ probe.arg.zone = FixedZone(0)
    /\ probe.out.info = NoCriteria
    /\ probe.out.message = "Purging ALL INTERVALS!"

\* criteria that match the interval without being the literal True filter
C16_WitnessPartial ==
    /\ CriteriaOk
    /\ probe.out.value = TRUE
    /\ probe.out.built # filter_true
    /\ probe.out.message = "Purging the following intervals:"

\* a disjunction of two predicates, which does not fold to a constant
C16_WitnessOr ==
    /\ probe.fn = "or"
    /\ Len(probe.out.built) = 3
    /\ ~Filter_evals_true(probe.out.built)
    /\ ~Filter_evals_false(probe.out.built)

\* ------------------------------------------------------------ the registry
Registered(t) == { t.tag_names[i] : i \in 1..Len(t.tag_names) }

\* C17: after any sequence of insert and get_id_or_insert calls from the empty
\* registry, names are unique, the ids in use are exactly 0..n-1, get_name and
\* get_id are inverse on registered names, and both find nothing for an
\* unregistered name or an id >= n; insert of a registered name fails with
\* TagExists and changes nothing, otherwise it returns the next id n.
C17_RegistryInvariant ==
    LET n == Len(tags.tag_names)
        was == before.tags
    IN /\ \A i, j \in 1..n : tags.tag_names[i] = tags.tag_names[j] => i = j
       /\ { tags.tag_ids[x] : x \in DOMAIN tags.tag_ids } = 0..(n - 1)
       /\ \A name \in TagPool :
            IF name \in Registered(tags)
            THEN /\ is_some(Tags_get_id(tags, name))
                 /\ Tags_get_name(tags, unwrap(Tags_get_id(tags, name))) = Some(name)
            ELSE Tags_get_id(tags, name) = None
       /\ \A id \in 0..(Cardinality(TagPool) + 1) :
            IF id < n
            THEN /\ is_some(Tags_get_name(tags, id))
                 /\ Tags_get_id(tags, unwrap(Tags_get_name(tags, id))) = Some(id)
            ELSE Tags_get_name(tags, id) = None
       /\ (op = "insert" =>
            IF arg \in Registered(was)
            THEN result = Err("TagExists") /\ tags = was
            ELSE /\ result = Ok(Len(was.tag_names))
                 /\ tags.tag_names = Append(was.tag_names, arg)
                 /\ \A name \in Registered(was) :
                        Tags_get_id(tags, name) = Tags_get_id(was, name))
       /\ (op = "get_id_or_insert" =>
            IF arg \in Registered(was)
            THEN result = Ok(unwrap(Tags_get_id(was, arg))) /\ tags = was
            ELSE /\ result = Ok(Len(was.tag_names))
                 /\ tags.tag_names = Append(was.tag_names, arg))

\* a third name inserted after two others
C17_Witness ==
    /\ op = "insert"
    /\ result = Ok(2)
    /\ Len(tags.tag_names) = 3

\* insert of a name that is already there, in a registry of three
C17_WitnessExists ==
    /\ op = "insert"
    /\ result = Err("TagExists")
    /\ Len(tags.tag_names) = 3
    /\ tags = before.tags

\* ------------------------------------------------ gc_tag_names and bulk delete
NameOf(l, i) == Tags_get_name(l.tags, l.intervals[i].tag)
NamesOf(l) == [i \in 1..Len(l.intervals) |-> NameOf(l, i)]

\* the members of a sequence in the order of their first occurrence
RECURSIVE FirstOccurrences(_)
FirstOccurrences(seq) ==
    IF seq = << >> THEN << >>
    ELSE LET init == FirstOccurrences(SubSeq(seq, 1, Len(seq) - 1))
             last == seq[Len(seq)]
         IN IF \E k \in 1..Len(init) : init[k] = last THEN init ELSE Append(init, last)

\* C18: gc_tag_names keeps the (tag name, interval) pairs: same length and
\* order, and at each position the name resolved through the new registry,
\* the start and the duration are those from before the call.
C18_GcPreservesPairs ==
    (op = "gc_tag_names") =>
        /\ result = Unit
        /\ Len(intervals) = Len(before.intervals)
        /\ \A i \in 1..Len(intervals) :
            /\ is_some(NameOf(log, i))
            /\ NameOf(log, i) = NameOf(before, i)
            /\ intervals[i].interval = before.intervals[i].interval

\* a collection after which an interval carries another id for the same name
C18_Witness ==
    /\ op = "gc_tag_names"
    /\ \E i \in 1..Len(intervals) :
        /\ intervals[i].tag # before.intervals[i].tag
        /\ NameOf(log, i) = NameOf(before, i)

\* a collection of two intervals of one tag
C18_WitnessSameTag ==
    /\ op = "gc_tag_names"
    /\ Len(intervals) = 2
    /\ intervals[1].tag = intervals[2].tag

\* C19: after gc_tag_names the registry holds exactly the names that some
\* interval refers to, with ids 0..k-1 in the order in which each name first
\* occurs in the interval sequence; the first interval has tag id 0 and
\* names without an interval are gone.
C19_GcRegistry ==
    (op = "gc_tag_names") =>
        LET order == FirstOccurrences([i \in 1..Len(before.intervals) |->
                                           unwrap(NameOf(before, i))])
        IN /\ tags.tag_names = order
           /\ DOMAIN tags.tag_ids = Registered(tags)
           /\ \A k \in 1..Len(order) : tags.tag_ids[order[k]] = k - 1
           /\ Registered(tags) = { unwrap(NameOf(log, i)) : i \in 1..Len(intervals) }
           /\ (intervals # << >> => intervals[1].tag = 0)

\* a name without intervals is dropped and the remaining one moves to id 0
C19_Witness ==
    /\ op = "gc_tag_names"
    /\ before.tags.tag_names = << "work", "play" >>
    /\ tags.tag_names = << "play" >>
    /\ intervals # << >>

\* both names stay and swap their ids, following the interval order
C19_WitnessReorder ==
    /\ op = "gc_tag_names"
    /\ before.tags.tag_names = << "work", "play" >>
    /\ tags.tag_names = << "play", "work" >>

\* C20: remove(p) leaves exactly the intervals on which p is false and
\* retain(p) exactly those on which p is true, in their order and unchanged;
\* the registry is not touched, and remove(p) is retain(not p).
C20_RemoveRetain ==
    LET Matches(x) == Filter_eval(arg, x, now)
        Misses(x) == ~Filter_eval(arg, x, now)
    IN /\ (op = "remove" =>
            /\ intervals = SelectSeq(before.intervals, Misses)
            /\ tags = before.tags
            /\ log = TimeLog_retain(before, Filter_inverted(arg), now))
       /\ (op = "retain" =>
            /\ intervals = SelectSeq(before.intervals, Matches)
            /\ tags = before.tags)

\* remove drops the first of two intervals and keeps the second
C20_Witness ==
    /\ op = "remove"
    /\ Len(before.intervals) = 2
    /\ intervals = << before.intervals[2] >>
    /\ Len(tags.tag_names) = 2

\* retain keeps the first of two intervals and drops the second
C20_WitnessRetain ==
    /\ op = "retain"
    /\ Len(before.intervals) = 2
    /\ intervals = << before.intervals[1] >>

\* ------------------------------------------------ the open and closed flags
\* whether the filter of the given criteria matches the drawn interval
CriteriaMatch(info) ==
    EvalOn(unwrap(TagsInRange_filter(info, log, todaytime_of(now, probe.arg.zone)).val))
RecvOpen == probe.recv.interval.duration = None

\* what the flags do to the result of TagsInRange::filter
FlagsRespected ==
    LET info == probe.out.info
        plain == [info EXCEPT !.open = FALSE, !.closed = FALSE]
    IN /\ (info.open /\ info.closed => probe.out.result = Err("InconsistentFilter"))
       /\ (~(info.open /\ info.closed) => probe.out.result.ok)
       /\ (info.open /\ ~info.closed =>
                /\ (probe.out.value => RecvOpen)
                /\ probe.out.value = (CriteriaMatch(plain) /\ RecvOpen))
       /\ (info.closed /\ ~info.open =>
                /\ (probe.out.value => ~RecvOpen)
                /\ probe.out.value = (CriteriaMatch(plain) /\ ~RecvOpen))
       /\ (~info.open /\ ~info.closed =>
                probe.out.value =
                    (CriteriaMatch([info EXCEPT !.open = TRUE])
                        \/ CriteriaMatch([info EXCEPT !.closed = TRUE])))

\* C21: criteria with both the open and the closed flag fail with
\* InconsistentFilter whatever the tags and time bounds are; with one flag the
\* filter matches exactly the open (closed) intervals that the same criteria
\* without a flag match, and with neither flag there is no such restriction.
C21_OpenClosedFlags ==
    (probe.fn = "TagsInRange::filter") => FlagsRespected

\* what holds of the flags instead: they are respected whenever the local
\* midnight of the current date has a single offset, and the construction
\* aborts before it looks at them when it has not
FlagsWhereMidnightResolves ==
    (probe.fn = "TagsInRange::filter") =>
        IF todaytime_of(now, probe.arg.zone).ok THEN FlagsRespected
        ELSE probe.out.result = Panic

\* both flags are set and the construction aborts on the local midnight
C21_WitnessPanic ==
    /\ probe.fn = "TagsInRange::filter"
    /\ probe.arg.zone = Havana
    /\ probe.out.info.open
    /\ probe.out.info.closed
    /\ probe.out.result = Panic

\* both flags together with tags and time bounds
C21_Witness ==
    /\ probe.fn = "TagsInRange::filter"
    /\ probe.out.info.open
    /\ probe.out.info.closed
    /\ probe.out.info.tags # << >>
    /\ probe.out.info.before # None
    /\ probe.out.result = Err("InconsistentFilter")

\* the closed flag rejects an open interval that the other criteria accept
C21_WitnessClosed ==
    /\ probe.fn = "TagsInRange::filter"
    /\ probe.out.info.closed
    /\ ~probe.out.info.open
    /\ probe.out.result.ok
    /\ RecvOpen
    /\ CriteriaMatch([probe.out.info EXCEPT !.closed = FALSE])
    /\ probe.out.value = FALSE

\* the open flag accepts an open interval
C21_WitnessOpen ==
    /\ probe.fn = "TagsInRange::filter"
    /\ probe.out.info.open
    /\ RecvOpen
    /\ probe.out.result.ok
    /\ probe.out.value = TRUE

\* ------------------------------------------------------- closed is terminal
WasClosed(i) == before.intervals[i].interval.duration # None
SameAsBefore(i) ==
    /\ NameOf(log, i) = NameOf(before, i)
    /\ intervals[i].interval = before.intervals[i].interval
ReopenedAt(i) ==
    /\ op = "open"
    /\ result.ok
    /\ intervals[i] = OpenAt(before.intervals[i].tag, before.intervals[i].interval.start)
    /\ NameOf(log, i) = NameOf(before, i)

\* C22: closed is terminal: close (like a clock step or gc_tag_names) leaves
\* every closed interval with its tag name, start and end; open either leaves
\* it or reopens it, i.e. replaces it by an open interval of the same tag and
\* start; remove and retain only drop intervals and edit none.
C22_ClosedIsTerminal ==
    /\ (op \in {"close", "tick", "gc_tag_names"} =>
            /\ Len(intervals) = Len(before.intervals)
            /\ \A i \in 1..Len(before.intervals) : WasClosed(i) => SameAsBefore(i))
    /\ (op = "open" =>
            /\ Len(intervals) >= Len(before.intervals)
            /\ \A i \in 1..Len(before.intervals) :
                    WasClosed(i) => (SameAsBefore(i) \/ ReopenedAt(i)))
    /\ (op \in {"remove", "retain"} =>
            /\ tags = before.tags
            /\ \A j \in 1..Len(intervals) :
                    \E i \in j..Len(before.intervals) : intervals[j] = before.intervals[i])

\* close of a tag that has an older closed interval and an open one
C22_Witness ==
    /\ op = "close"
    /\ result.ok
    /\ Len(intervals) = 2
    /\ WasClosed(1)
    /\ ~WasClosed(2)
    /\ intervals[1].tag = intervals[2].tag
    /\ intervals[1] = before.intervals[1]

\* open reopens a closed interval
C22_WitnessReopen ==
    /\ op = "open"
    /\ \E i \in 1..Len(before.intervals) :
        /\ WasClosed(i)
        /\ ReopenedAt(i)
        /\ now > before.intervals[i].interval.start + Quarter

\* ----------------------------------------------------------- a program run
\* C23: TimeLog::close always ends with an explicit result, the closed
\* interval or TagNotOpen, for every log content and every current time, also
\* when the open interval of the tag starts later than the current time; it
\* never panics.  (The close command returns Changed, or IoError when its
\* message cannot be written, after close returned the closed interval.)
C23_CloseNeverPanics ==
    (op = "close") => result \in { Changed, Err("IoError"), Err("TagNotOpen") }

RunOver == op \in {"write_timelog", "exit"}
ReadOnly == { "list", "aggregate", "status", "tags" }
OutputsWork == env.stdout /\ env.stderr
MidnightResolves == todaytime_of(now, env.zone).ok
Loaded == current_timelog(env.logfile, probe.out.file, env.disk)
Answer == user_confirmation(env.stdin, run_outputs, FALSE)
PurgeMatches ==
    any(before, unwrap(TagsInRange_filter(arg.info, before,
                                          todaytime_of(now, env.zone)).val), now)

\* the exit status of a run whose last result is r
StatusOf(r) ==
    IF r.ok THEN Some(0)
    ELSE IF r = Panic \/ ~env.stderr THEN Some(101)
    ELSE Some(1)

\* C25 as stated: the log is loaded once and, once it is loaded, one command
\* is executed; the logfile is written if and only if the command returned
\* Changed; list, aggregate, status and tags always return Unchanged (or the
\* InconsistentFilter that the claim lists among the errors) and leave the
\* log in memory unmodified; a purge that matches nothing or is declined
\* returns Unchanged without modifying it; a command that returns an error
\* causes no write.
C25_AsStated ==
    /\ probe.out.loads <= 1 /\ probe.out.commands <= 1 /\ probe.out.writes <= 1
    /\ (RunOver => /\ probe.out.loads = 1
                   /\ (Loaded.ok => probe.out.commands = 1))
    /\ (op = "write_timelog" => result = Changed /\ probe.out.writes = 1)
    /\ (op = "exit" => result # Changed /\ probe.out.writes = 0)
    /\ (op \in ReadOnly =>
            /\ result \in { Unchanged, Err("InconsistentFilter") }
            /\ log = before)
    /\ (op = "purge" /\ result # Err("InconsistentFilter") /\ result # Panic
                     /\ MidnightResolves
                     /\ (~PurgeMatches \/ Answer = Ok(FALSE)) =>
            /\ result = Unchanged
            /\ log = before)
    /\ (op \in CommandNames /\ ~result.ok => probe.out.writes = 0)

\* C25: in one run the log is loaded once and, when it could be loaded, one
\* command is executed; write_timelog is called, once and with the log in
\* memory, if and only if the command returned Changed, and the logfile then
\* holds that log when File::create and the write succeed, is left as it was
\* when File::create fails and is left empty when the write fails.  list,
\* aggregate, status and tags never return Changed and leave the log in
\* memory as loaded: they return Unchanged, or InconsistentFilter, or IoError
\* when an output fails, and list and aggregate abort when the local midnight
\* has no single offset.  A purge aborts there too; elsewhere a purge that
\* matches nothing or is not confirmed does not return Changed and leaves the
\* log as loaded, and returns Unchanged when the outputs work.  A command
\* that returns an error or aborts causes no write.  The exit status is 0
\* after Unchanged and after a write that succeeded, 101 after an abort and
\* after an error that cannot be printed to stderr, and 1 after any other
\* error.
C25_WriteIffChanged ==
    /\ probe.out.loads <= 1 /\ probe.out.commands <= 1 /\ probe.out.writes <= 1
    /\ (RunOver => /\ probe.out.loads = 1
                   /\ probe.out.commands = (IF Loaded.ok THEN 1 ELSE 0))
    /\ (op = "write_timelog" =>
            /\ result = Changed
            /\ probe.out.writes = 1
            /\ (env.disk.create = "ok" =>
                    /\ probe.out.status = Some(0)
                    /\ probe.recv = Document(to_writer(log)))
            /\ (env.disk.create = "denied" =>
                    /\ probe.out.status = StatusOf(Err("CannotOpenLogFile"))
                    /\ probe.recv = probe.out.file)
            /\ (env.disk.create = "full" =>
                    /\ probe.out.status = StatusOf(Err("SerdeJson"))
                    /\ probe.recv = NoDocument))
    /\ (op = "exit" =>
            /\ result # Changed
            /\ probe.out.writes = 0
            /\ probe.out.status = StatusOf(result)
            /\ probe.recv = probe.out.file)
    /\ (op \in CommandNames => Loaded = Ok(before))
    /\ (op \in ReadOnly =>
            /\ result \in { Unchanged, Err("InconsistentFilter"), Err("IoError"), Panic }
            /\ (result = Err("IoError") => ~OutputsWork)
            /\ (result = Panic <=> ~MidnightResolves /\ op \in { "list", "aggregate" })
            /\ log = before)
    /\ (op = "purge" /\ ~MidnightResolves => result = Panic /\ log = before)
    /\ (op = "purge" /\ MidnightResolves /\ ~(arg.info.open /\ arg.info.closed)
                     /\ (~PurgeMatches \/ Answer # Ok(TRUE)) =>
            /\ result # Changed
            /\ log = before
            /\ (OutputsWork /\ (~PurgeMatches \/ Answer = Ok(FALSE)) => result = Unchanged))
    /\ (op \in CommandNames /\ ~result.ok =>
            /\ result.err \in { "TagAlreadyOpen", "TagNotOpen", "InconsistentFilter",
                                "IoError", "panic" }
            /\ probe.out.writes = 0)

\* a purge on the day summer time began at midnight was confirmed and written
C25_WitnessGap ==
    /\ op = "write_timelog"
    /\ arg.name = "purge"
    /\ env.zone = Guatemala
    /\ probe.out.status = Some(0)
    /\ intervals = << >>
    /\ before.intervals # << >>

\* the logfile was read, the command returned Changed and File::create failed
C25_WitnessCreateDenied ==
    /\ op = "write_timelog"
    /\ probe.out.file # None
    /\ env.disk = [open |-> "ok", create |-> "denied"]
    /\ env.stderr
    /\ probe.out.status = Some(1)
    /\ probe.recv = probe.out.file

\* an error that could not be printed
C25_WitnessStderr ==
    /\ op = "exit"
    /\ result = Err("TagNotOpen")
    /\ ~env.stderr
    /\ probe.out.status = Some(101)

\* list aborted where the local midnight occurred twice
C25_WitnessAbort ==
    /\ op = "exit"
    /\ arg.name = "list"
    /\ env.zone = Havana
    /\ result = Panic
    /\ probe.out.status = Some(101)

\* a confirmed purge was written: the logfile is the purged log
C25_Witness ==
    /\ op = "write_timelog"
    /\ arg.name = "purge"
    /\ probe.out.status = Some(0)
    /\ probe.recv # probe.out.file
    /\ Len(intervals) < Len(before.intervals)

\* a declined purge of matching intervals ended the run without a write
C25_WitnessDeclined ==
    /\ op = "exit"
    /\ arg.name = "purge"
    /\ MidnightResolves
    /\ ~(arg.info.open /\ arg.info.closed)
    /\ PurgeMatches
    /\ Answer = Ok(FALSE)
    /\ result = Unchanged

\* an open that failed ended the run without a write
C25_WitnessError ==
    /\ op = "exit"
    /\ result = Err("TagAlreadyOpen")
    /\ probe.out.writes = 0

\* an open whose message could not be written: the interval is opened in
\* memory, the command returns IoError and the logfile stays as it was
C25_WitnessIoError ==
    /\ op = "exit"
    /\ arg.name = "open"
    /\ result = Err("IoError")
    /\ log # before
    /\ probe.recv = probe.out.file

\* list on a stdout that fails
C25_WitnessListIoError ==
    /\ op = "exit"
    /\ arg.name = "list"
    /\ result = Err("IoError")
    /\ env.stderr

\* the write on a full disk failed after the file was emptied
C25_WitnessDiskFull ==
    /\ op = "write_timelog"
    /\ probe.out.status = Some(1)
    /\ probe.recv = NoDocument
    /\ probe.out.file # NoDocument

\* ---------------------------------------------------- quarter-hour rounding
\* C24: ceil_time(t) is the least quarter-hour boundary at or after t and
\* floor_time(t) the greatest one at or before t, for every instant t, also
\* one with seconds or a sub-second part; so floor_time(t) <= t <= ceil_time(t)
\* and the two differ by 0 or 15 minutes.
C24_CeilFloorBounds ==
    (probe.fn = "ceil_time") =>
        LET t == probe.arg IN
        /\ probe.out.floor = QuarterFloor(t)
        /\ probe.out.ceil = QuarterCeiling(t)
        /\ probe.out.floor <= t
        /\ t <= probe.out.ceil
        /\ probe.out.ceil - probe.out.floor \in {0, Quarter}

\* C26: v2 ceil_duration(d) is a whole multiple of 15 minutes, at least d and
\* less than 15 minutes above d, for every duration d, also one with a
\* seconds part; floor_duration(d) is the largest multiple of 15 minutes not
\* exceeding d.
C26_CeilDuration ==
    (probe.fn = "ceil_duration") =>
        LET d == probe.arg IN
        /\ probe.out.ceil % Quarter = 0
        /\ probe.out.ceil >= d
        /\ probe.out.ceil - d < Quarter
        /\ probe.out.floor = QuarterFloor(d)

\* --------------------------------------------------- invariants of the log
\* C27: from an empty log, after any sequence of open, close, remove, retain
\* and gc_tag_names every interval's tag id is registered (less than the
\* number of names), so the unwrapped name lookups of gc_tag_names and of the
\* list, aggregate and tags commands do not fail.
C27_TagsRegistered ==
    /\ \A i \in 1..Len(intervals) :
        /\ intervals[i].tag < Len(tags.tag_names)
        /\ is_some(NameOf(log, i))
    /\ TimeLog_gc_tag_names(log)[1] = Unit
    /\ \A stdout, stderr \in BOOLEAN :
        LET o == StdOutputs_default(stdout, stderr) IN
        /\ list_filter(log, filter_true, o, now) # Panic
        /\ CommandContext_tags(log, o)[1] # Panic
        /\ (stdout => /\ list_filter(log, filter_true, o, now) = Unit
                      /\ CommandContext_tags(log, o)[1] = Unchanged)
    /\ (op = "gc_tag_names" => result = Unit)

\* a registry with a name that no interval uses, and an interval of a later id
C27_Witness ==
    /\ op \in {"remove", "retain"}
    /\ Len(tags.tag_names) = 2
    /\ Len(intervals) = 1
    /\ intervals[1].tag = 1

\* the same log after the collection
C27_WitnessGc ==
    /\ op = "gc_tag_names"
    /\ Len(before.tags.tag_names) = 2
    /\ Len(tags.tag_names) = 1
    /\ Len(intervals) = 1
    /\ intervals[1].tag = 0

\* C28: from an empty log, under open, close, remove, retain and gc_tag_names
\* every start is on a quarter-hour boundary, every closed interval ends on a
\* boundary not before its start, and every stored duration is a non-negative
\* multiple of 15 minutes.
C28_OnQuarterHours ==
    \A i \in 1..Len(intervals) :
        LET int == intervals[i].interval IN
        /\ int.start % Quarter = 0
        /\ (int.duration # None =>
                /\ EndOf(intervals[i]) % Quarter = 0
                /\ EndOf(intervals[i]) >= int.start
                /\ int.duration[1] >= 0
                /\ int.duration[1] % Quarter = 0)

\* an interval opened and closed off the boundaries, stored over two quarters
C28_Witness ==
    /\ op = "close"
    /\ result.ok
    /\ now % Quarter # 0
    /\ \E i \in 1..Len(intervals) :
        /\ intervals[i].interval.duration = Some(2 * Quarter)
        /\ before.intervals[i].interval.duration = None

\* a close within the second after the boundary of the opening
C28_WitnessZero ==
    /\ op = "close"
    /\ result.ok
    /\ now % Quarter = 1
    /\ \E i \in 1..Len(intervals) :
        /\ intervals[i].interval = Interval_closed(now - 1, 0)
        /\ before.intervals[i].interval.duration = None

\* ------------------------------------------------- well-formed postfix form
Arity(node) ==
    CASE node.k = "Not" -> 1
      [] node.k \in {"And", "Or"} -> 2
      [] OTHER -> 0

\* no node of f pops an empty stack and one value is left, in eval on the
\* drawn interval and in eval_const
WellFormed(f) ==
    /\ Len(f) > 0
    /\ \A k \in 1..Len(f) :
        /\ Len(eval_nodes(SubSeq(f, 1, k - 1), 1, << >>, probe.recv, now)) >= Arity(f[k])
        /\ Len(eval_const_nodes(SubSeq(f, 1, k - 1), 1, << >>)) >= Arity(f[k])
    /\ Len(eval_nodes(f, 1, << >>, probe.recv, now)) = 1
    /\ Len(eval_const_nodes(f, 1, << >>)) = 1

\* C29: every filter from the public constructors and combinators is a
\* well-formed non-empty postfix expression: in eval and eval_const no
\* operator node pops an empty stack, and exactly one value is left at the end.
C29_WellFormed ==
    /\ (probe.fn = "input" => WellFormed(probe.filter) /\ WellFormed(probe.other))
    /\ (Combined \/ CriteriaOk => WellFormed(probe.out.built))
    /\ (probe.fn = "inverted" => WellFormed(probe.out.twice))

\* a conjunction of two composite operands
C29_Witness ==
    /\ probe.fn = "and"
    /\ Len(probe.filter) = 3
    /\ Len(probe.other) = 3
    /\ Len(probe.out.built) = 7

\* criteria with two known tags, both time bounds and a flag
C29_WitnessCriteria ==
    /\ CriteriaOk
    /\ Len(probe.out.built) >= 12

\* ------------------------------------------------------ rounding an interval
\* C30: round_to_quarter_hours keeps the tag and keeps an interval open or
\* closed: an open one stays open with its start floored, a closed one with
\* end >= start stays closed with start = floor_time(start), end =
\* ceil_time(end) and a non-negative duration.
C30_RoundKeepsState ==
    (probe.fn = "round_to_quarter_hours") =>
        LET old == probe.recv.interval
            new == probe.out.interval
        IN /\ probe.out.tag = probe.recv.tag
           /\ new.start = floor_time(old.start)
           /\ (old.duration = None => new.duration = None)
           /\ (old.duration # None =>
                    /\ new.duration # None
                    /\ new.duration[1] >= 0
                    /\ EndOf(probe.out) = ceil_time(EndOf(probe.recv)))

\* a closed interval with both ends off the boundaries
C30_Witness ==
    /\ probe.fn = "round_to_quarter_hours"
    /\ probe.recv.interval.duration # None
    /\ probe.recv.interval.start % Quarter # 0
    /\ EndOf(probe.recv) % Quarter # 0
    /\ probe.out.interval.duration # None
    /\ probe.out.interval # probe.recv.interval

\* an empty closed interval half a second after a boundary
C30_WitnessZero ==
    /\ probe.fn = "round_to_quarter_hours"
    /\ probe.recv.interval = Interval_closed(Quarter + 1, 0)
    /\ probe.out.interval = Interval_closed(Quarter, 0)

\* an open interval
C30_WitnessOpen ==
    /\ probe.fn = "round_to_quarter_hours"
    /\ probe.recv.interval.duration = None
    /\ probe.recv.interval.start % Quarter # 0
    /\ probe.out.interval.duration = None

============================================================================
